---------------------------- MODULE Spec2Model ----------------------------
(***************************************************************************)
(* A model of EconomicDataValidator (src/economic_data_validator.py): the  *)
(* read-through snapshot cache (cached_data / cache_timestamp /            *)
(* cache_validity and the _get_current_* resolvers), the ten category      *)
(* validators and the aggregation done by validate_article_data.           *)
(*                                                                         *)
(* Text.  An article is a sequence of phrases.  A phrase is one textual    *)
(* occurrence, given by its shape (kind), the keyword it is about (sub)    *)
(* and the numerals written in it (num, num2).  A numeral is the sequence  *)
(* of characters the regular expression captures, so that cleaning and     *)
(* float() are modelled on characters.  re.findall of an extraction rule   *)
(* over the article is the concatenation of the rule's matches in each     *)
(* phrase (phrases are separated so that no rule spans two of them).       *)
(*                                                                         *)
(* Numbers.  A parsed value is kept as an integer number of 10^-4 units    *)
(* (Scale).  The code computes on doubles: the differences it compares     *)
(* with a tolerance are computed in IEEE-754 binary64 (Binary64, B64Sub,   *)
(* B64Div, ...) from the doubles nearest to the decimal figures, rounding  *)
(* to nearest-even after every operation.                                  *)
(*                                                                         *)
(* Time.  The clock counts hours since 2025-01-01 00:00.                   *)
(*                                                                         *)
(* Specifications.  Spec is one call of validate_article_data on a         *)
(* validator just constructed; SpecCache calls the resolvers one by one    *)
(* while the clock advances; SpecRepeat validates one article again and    *)
(* again; SpecOrder calls the ten validators in any order, their loops     *)
(* interleaved; SpecRace lets several callers resolve at once.             *)
(***************************************************************************)
EXTENDS Integers, Sequences, FiniteSets, TLC

VARIABLES
    now,               \* datetime.now(), in hours
    cached_data,       \* self.cached_data: a function from the keys present to payloads
    cache_timestamp,   \* self.cache_timestamp: a function from the keys present to hours
    served,            \* the resolves made by the last step: what each returned
    article,           \* article_content of the validation in progress
    pc,                \* where validate_article_data stands
    work,              \* matches of the running validator not yet processed
    processed_values,  \* the running validator's processed_values set
    snapshot,          \* the snapshot the running validator resolved at entry
    results,           \* category -> report of each validator called so far
    called,            \* the validators called by the call in progress, in order
    all_hits,          \* every resolve of the call in progress was served from the cache
    history,           \* the reports returned so far, oldest first
    passes,            \* validate_article_data calls started
    ticks,             \* clock advances made
    ops,               \* direct resolver calls made (cache specification)
    source,            \* what requests.get may do in this run: a set of outcomes
    running,           \* validator -> its matches left, its processed_values, its
                       \* snapshot and where the snapshot came from, for the
                       \* validators called in any order
    in_flight          \* caller -> the fetch it has under way, if any, for resolvers
                       \* called by several callers at once

vars == << now, cached_data, cache_timestamp, served, article, pc, work,
           processed_values, snapshot, results, called, all_hits, history,
           passes, ticks, ops, source, running, in_flight >>

(***************************************************************************)
(* Bounds of the model.                                                    *)
(***************************************************************************)
MaxLen == 2      \* phrases in an article
MaxOps == 4      \* resolver calls and clock advances in the cache specification
MaxPasses == 3   \* validation calls in the repeated-validation specification
MaxTicks == 1    \* clock advances in the repeated-validation specification
MaxCallers == 2  \* callers of the resolvers in the concurrent specification

Abs(x) == IF x < 0 THEN -x ELSE x

RECURSIVE Pow10(_)
Pow10(k) == IF k = 0 THEN 1 ELSE 10 * Pow10(k - 1)

RECURSIVE SumSeq(_)
SumSeq(s) == IF s = << >> THEN 0 ELSE Head(s) + SumSeq(Tail(s))

RECURSIVE Flatten(_)
Flatten(ss) == IF ss = << >> THEN << >> ELSE Head(ss) \o Flatten(Tail(ss))

(***************************************************************************)
(* Numerals: cleaning and float().                                         *)
(***************************************************************************)
Digits == {"0", "1", "2", "3", "4", "5", "6", "7", "8", "9"}

DigitVal(c) ==
    CASE c = "0" -> 0 [] c = "1" -> 1 [] c = "2" -> 2 [] c = "3" -> 3
      [] c = "4" -> 4 [] c = "5" -> 5 [] c = "6" -> 6 [] c = "7" -> 7
      [] c = "8" -> 8 [] c = "9" -> 9

\* s.replace(',', '.')
ReplaceComma(s) == [i \in 1..Len(s) |-> IF s[i] = "," THEN "." ELSE s[i]]

\* if s.endswith('.'): s = s[:-1]
StripOneDot(s) ==
    IF Len(s) > 0 /\ s[Len(s)] = "." THEN SubSeq(s, 1, Len(s) - 1) ELSE s

\* s.rstrip('.')
RECURSIVE RStripDots(_)
RStripDots(s) ==
    IF Len(s) > 0 /\ s[Len(s)] = "." THEN RStripDots(SubSeq(s, 1, Len(s) - 1)) ELSE s

\* match.replace(',', '.').strip(), then one trailing point removed
CleanMatch(m) == StripOneDot(ReplaceComma(m))

\* value_str = match.replace(',', '.').rstrip('.')
CleanInflation(m) == RStripDots(ReplaceComma(m))

DotCount(s) == Cardinality({i \in 1..Len(s) : s[i] = "."})

\* float(s) returns a number (it raises ValueError otherwise): digits with at
\* most one point and at least one digit.
CanFloat(s) ==
    /\ \A i \in 1..Len(s) : s[i] \in Digits \cup {"."}
    /\ DotCount(s) <= 1
    /\ \E i \in 1..Len(s) : s[i] \in Digits

RECURSIVE IntOf(_)
IntOf(ds) ==
    IF ds = << >> THEN 0
    ELSE 10 * IntOf(SubSeq(ds, 1, Len(ds) - 1)) + DigitVal(ds[Len(ds)])

DotPos(s) ==
    IF DotCount(s) = 0 THEN Len(s) + 1
    ELSE CHOOSE i \in 1..Len(s) : s[i] = "."

\* The digits after the point, cut or zero-filled to k places.
FracDigits(s, k) ==
    LET f == SubSeq(s, DotPos(s) + 1, Len(s))
    IN [i \in 1..k |-> IF i <= Len(f) THEN f[i] ELSE "0"]

\* float(s) in units of 10^-k (the numerals of the model have at most k
\* significant decimals, so nothing is lost).
ToFixed(s, k) ==
    IntOf(SubSeq(s, 1, DotPos(s) - 1)) * Pow10(k) + IntOf(FracDigits(s, k))

Scale == 4
Float(s) == ToFixed(s, Scale)
Unit == Pow10(Scale)

(***************************************************************************)
(* Binary64.  float(...) and the literals of the source are IEEE-754       *)
(* doubles, and the comparisons of the validators are made on the doubles  *)
(* their arithmetic gives: rounded to nearest, a tie to the even           *)
(* significand.  A double is [sign, m, e], standing for sign * m * 2^e,    *)
(* with m a natural number of exactly 53 bits (none for zero).  A natural  *)
(* number is the sequence of its digits in base 2^14, the lowest first,    *)
(* the highest other than zero.                                            *)
(***************************************************************************)
Limb == 2^14

\* a is a sequence of digits
IsBig(a) == \A i \in 1..Len(a) : a[i] \in 0..(Limb - 1)

\* digit i of a, zero above its length
BigDigitAt(a, i) == IF i \in 1..Len(a) THEN a[i] ELSE 0

\* a without its leading zeros
BigTrim(a) ==
    LET n == CHOOSE i \in 0..Len(a) :
                 /\ i = 0 \/ a[i] # 0
                 /\ \A j \in (i + 1)..Len(a) : a[j] = 0
    IN SubSeq(a, 1, n)

\* n < Limb^3
BigOf(n) == BigTrim(<< n % Limb, (n \div Limb) % Limb, n \div (Limb * Limb) >>)

\* The sequence of the n values digit(1), ..., digit(n)
BigDigits(n, digit(_)) == SubSeq([i \in 1..n |-> digit(i)], 1, n)

\* the carry into digit i of the sums s, digit by digit
RECURSIVE BigCarry(_, _)
BigCarry(s, i) == IF i = 1 THEN 0 ELSE (s[i - 1] + BigCarry(s, i - 1)) \div Limb

\* a + b
BigAdd(a, b) ==
    CASE IsBig(a) /\ IsBig(b) ->
        LET n == (IF Len(a) > Len(b) THEN Len(a) ELSE Len(b)) + 1
            s == BigDigits(n, LAMBDA i : BigDigitAt(a, i) + BigDigitAt(b, i))
        IN BigTrim(BigDigits(n, LAMBDA i : (s[i] + BigCarry(s, i)) % Limb))

\* what digit i lends to the digit below, d being the differences digit by digit
RECURSIVE BigBorrow(_, _)
BigBorrow(d, i) == IF i = 1 THEN 0 ELSE IF d[i - 1] - BigBorrow(d, i - 1) < 0 THEN 1 ELSE 0

\* a - b for a >= b
BigSub(a, b) ==
    CASE IsBig(a) /\ IsBig(b) ->
        LET d == BigDigits(Len(a), LAMBDA i : a[i] - BigDigitAt(b, i))
        IN BigTrim(BigDigits(Len(a), LAMBDA i : (d[i] - BigBorrow(d, i) + Limb) % Limb))

\* 1, 0, -1 as a is greater than, equal to, less than b
BigCmp(a, b) ==
    IF Len(a) > Len(b) THEN 1
    ELSE IF Len(a) < Len(b) THEN -1
    ELSE IF a = b THEN 0
    ELSE LET i == CHOOSE i \in 1..Len(a) :
                      a[i] # b[i] /\ \A j \in (i + 1)..Len(a) : a[j] = b[j]
         IN IF a[i] > b[i] THEN 1 ELSE -1

\* a * k for 0 <= k < Limb: the low halves of the products of the digits, and
\* their high halves one digit up
BigMulSmall(a, k) ==
    CASE IsBig(a) /\ k \in 0..(Limb - 1) ->
        BigAdd(BigDigits(Len(a), LAMBDA i : (a[i] * k) % Limb),
               << 0 >> \o BigDigits(Len(a), LAMBDA i : (a[i] * k) \div Limb))

\* a * b for a and b of four digits at most: the sums of the products of the
\* digits column by column, each split into three digits
BigMul(a, b) ==
    CASE IsBig(a) /\ IsBig(b) /\ Len(a) <= 4 ->
        LET n == Len(a) + Len(b)
            column == BigDigits(n, LAMBDA k :
                          BigDigitAt(a, 1) * BigDigitAt(b, k) + BigDigitAt(a, 2) * BigDigitAt(b, k - 1)
                          + BigDigitAt(a, 3) * BigDigitAt(b, k - 2) + BigDigitAt(a, 4) * BigDigitAt(b, k - 3))
        IN BigAdd(BigAdd(BigDigits(n, LAMBDA k : column[k] % Limb),
                         << 0 >> \o BigDigits(n, LAMBDA k : (column[k] \div Limb) % Limb)),
                  << 0, 0 >> \o BigDigits(n, LAMBDA k : column[k] \div (Limb * Limb)))

\* the remainder by d of the digits of a from digit i up, 0 < d <= Limb
RECURSIVE BigRemAt(_, _, _)
BigRemAt(a, d, i) == IF i > Len(a) THEN 0 ELSE (BigRemAt(a, d, i + 1) * Limb + a[i]) % d

\* a divided by d, 0 < d <= Limb
BigDivSmall(a, d) ==
    CASE IsBig(a) /\ d \in 1..Limb ->
        [q |-> BigTrim(BigDigits(Len(a), LAMBDA i : (BigRemAt(a, d, i + 1) * Limb + a[i]) \div d)),
         r |-> BigRemAt(a, d, 1)]

\* the number of bits of a
BigBits(a) ==
    IF a = << >> THEN 0
    ELSE 14 * (Len(a) - 1) + Cardinality({k \in 0..13 : 2^k <= a[Len(a)]})

BigOdd(a) == a # << >> /\ a[1] % 2 = 1

\* a * 2^k
BigShl(a, k) ==
    IF a = << >> THEN a ELSE BigDigits(k \div 14, LAMBDA i : 0) \o BigMulSmall(a, 2^(k % 14))

\* a \div 2^k, and whether a bit was lost
BigShr(a, k) ==
    LET whole == IF k \div 14 < Len(a) THEN k \div 14 ELSE Len(a)
        bits == 2^(k % 14)
        t == SubSeq(a, whole + 1, Len(a))
    IN [q |-> BigTrim(BigDigits(Len(t), LAMBDA i :
                          t[i] \div bits + (BigDigitAt(t, i + 1) % bits) * (Limb \div bits))),
        lost |-> (t # << >> /\ t[1] % bits # 0) \/ \E i \in 1..whole : a[i] # 0]

B64Zero == [sign |-> 1, m |-> << >>, e |-> 0]

\* The double nearest to sign * (m + f) * 2^e, where 0 <= f < 1 and more is
\* true iff f > 0 (m has 55 bits or more when it is).
B64Round(sign, m, e, more) ==
    LET n == BigBits(m)
    IN IF n = 0 THEN B64Zero
       ELSE IF n <= 53 THEN [sign |-> sign, m |-> BigShl(m, 53 - n), e |-> e - (53 - n)]
       ELSE LET k == n - 53
                t == BigShr(m, k - 1)
                q == BigShr(t.q, 1).q
                up == BigOdd(t.q) /\ (t.lost \/ more \/ BigOdd(q))
                r == IF up THEN BigAdd(q, << 1 >>) ELSE q
            IN CASE IsBig(t.q) /\ IsBig(q) /\ IsBig(r) ->
                   IF BigBits(r) = 54
                   THEN [sign |-> sign, m |-> BigShr(r, 1).q, e |-> e + k + 1]
                   ELSE [sign |-> sign, m |-> r, e |-> e + k]

\* float("n/d") for a decimal written as the fraction n / d, 0 < d <= Limb
Binary64(n, d) ==
    IF n = 0 THEN B64Zero
    ELSE LET num == BigShl(BigOf(n), 70)
             x == BigDivSmall(num, d)
         IN CASE IsBig(num) /\ IsBig(x.q) -> B64Round(1, x.q, -70, x.r # 0)

B64Neg(x) == IF x.m = << >> THEN x ELSE [x EXCEPT !.sign = -x.sign]

\* abs(x)
B64Abs(x) == [x EXCEPT !.sign = 1]

\* x + y
B64Add(x, y) ==
    IF y.m = << >> THEN x
    ELSE IF x.m = << >> THEN y
    ELSE LET e0 == IF x.e < y.e THEN x.e ELSE y.e
             a == BigShl(x.m, x.e - e0)
             b == BigShl(y.m, y.e - e0)
             c == BigCmp(a, b)
             sum == IF x.sign = y.sign THEN BigAdd(a, b)
                    ELSE IF c > 0 THEN BigSub(a, b) ELSE BigSub(b, a)
         IN CASE IsBig(a) /\ IsBig(b) /\ IsBig(sum) ->
                B64Round(IF x.sign = y.sign \/ c > 0 THEN x.sign ELSE y.sign, sum, e0, FALSE)

\* x - y
B64Sub(x, y) == B64Add(x, B64Neg(y))

\* x * y
B64Mul(x, y) ==
    IF x.m = << >> \/ y.m = << >> THEN B64Zero
    ELSE LET product == BigMul(x.m, y.m)
         IN CASE IsBig(product) -> B64Round(x.sign * y.sign, product, x.e + y.e, FALSE)

\* One step of the long division by den, whose highest digit is Limb / 2 at
\* least: the digit of the quotient for cur < den * Limb.  The quotient of the
\* two highest digits of cur by the highest of den is the digit or one or two
\* more.
BigQuotientDigit(cur, den) ==
    LET n == Len(den)
        estimate == (BigDigitAt(cur, n + 1) * Limb + BigDigitAt(cur, n)) \div den[n]
        high == IF estimate > Limb - 1 THEN Limb - 1 ELSE estimate
    IN IF BigCmp(BigMulSmall(den, high), cur) <= 0 THEN high
       ELSE IF BigCmp(BigMulSmall(den, high - 1), cur) <= 0 THEN high - 1
       ELSE high - 2

\* a divided by den, digit by digit from the highest: the quotient and the
\* remainder, q being the digits of the quotient from digit i + 1 up and
\* rem the remainder of the digits of a above digit i (rem < den)
RECURSIVE BigDivAt(_, _, _, _, _)
BigDivAt(a, den, i, rem, q) ==
    IF i = 0 THEN [q |-> q, r |-> rem]
    ELSE LET cur == BigTrim(<< a[i] >> \o rem)
             d == BigQuotientDigit(cur, den)
             left == BigSub(cur, BigMulSmall(den, d))
             digits == << d >> \o q
         IN CASE BigCmp(left, den) < 0 /\ IsBig(digits) -> BigDivAt(a, den, i - 1, left, digits)

\* a divided by den, both first scaled so that the highest digit of den is
\* Limb / 2 at least; r tells whether there is a remainder
BigDiv(a, den) ==
    LET up == 14 * Len(den) - BigBits(den)
        num == BigShl(a, up)
        by == BigShl(den, up)
        first == IF Len(num) >= Len(by) THEN Len(num) - Len(by) + 1 ELSE 0
    IN CASE IsBig(num) /\ IsBig(by) ->
           LET x == BigDivAt(num, by, first, SubSeq(num, first + 1, Len(num)), << >>)
           IN [q |-> BigTrim(x.q), r |-> x.r # << >>]

\* x / y for y other than zero
B64Div(x, y) ==
    IF x.m = << >> THEN B64Zero
    ELSE LET num == BigShl(x.m, 60)
             d == BigDiv(num, y.m)
         IN CASE IsBig(num) /\ IsBig(d.q) -> B64Round(x.sign * y.sign, d.q, x.e - y.e - 60, d.r)

\* 1, 0, -1 as x is greater than, equal to, less than y
B64Cmp(x, y) ==
    LET sx == IF x.m = << >> THEN 0 ELSE x.sign
        sy == IF y.m = << >> THEN 0 ELSE y.sign
        mag == IF x.e > y.e THEN 1 ELSE IF x.e < y.e THEN -1 ELSE BigCmp(x.m, y.m)
    IN IF sx # sy THEN (IF sx > sy THEN 1 ELSE -1)
       ELSE IF sx = 0 THEN 0
       ELSE sx * mag

B64Lt(x, y) == B64Cmp(x, y) < 0
B64Le(x, y) == B64Cmp(x, y) <= 0

(***************************************************************************)
(* The clock.                                                              *)
(***************************************************************************)
HoursPerYear == 365 * 24
BaseYear == 2025
\* The year of the reference data whatever the clock shows.
YearOfReference(t) == BaseYear

\* datetime.now().year
YearOf(t) == BaseYear + (t \div HoursPerYear)
\* hour of the year at which a day starts: month lengths of a common year
DaysBefore(month) ==
    CASE month = 1 -> 0 [] month = 2 -> 31 [] month = 3 -> 59 [] month = 4 -> 90
      [] month = 5 -> 120 [] month = 6 -> 151 [] month = 7 -> 181 [] month = 8 -> 212
      [] month = 9 -> 243 [] month = 10 -> 273 [] month = 11 -> 304 [] month = 12 -> 334
DaysIn(month) ==
    CASE month \in {1, 3, 5, 7, 8, 10, 12} -> 31
      [] month \in {4, 6, 9, 11} -> 30
      [] month = 2 -> 28
\* Clock values a run may start at: 2025-09-15 00:00 and 2025-12-31 20:00.
StartTimes == {(DaysBefore(9) + 14) * 24, (DaysBefore(12) + 30) * 24 + 20}
\* Amounts by which the clock advances in one step, in hours.
TickHours == {1, 5, 6, 12, 24, 168}

(***************************************************************************)
(* The snapshot cache.                                                     *)
(***************************************************************************)
CacheKeys == {"forex", "inflation", "unemployment", "treasury", "dxy",
              "fed_calendar", "fed_rates", "rate_probabilities", "central_banks"}

\* One validity for every key, in hours.
cache_validity_uniform == [k \in CacheKeys |-> 6]

\* self.cache_validity, in hours
cache_validity ==
    [k \in CacheKeys |->
        CASE k = "forex" -> 6
          [] k = "inflation" -> 7 * 24
          [] k = "unemployment" -> 7 * 24
          [] k = "treasury" -> 1 * 24
          [] k = "dxy" -> 6
          [] k = "fed_calendar" -> 7 * 24
          [] k = "fed_rates" -> 7 * 24
          [] k = "rate_probabilities" -> 12
          [] k = "central_banks" -> 7 * 24]

\* A store is the pair of dictionaries: [data |-> cached_data, stamp |-> cache_timestamp].
Store == [data |-> cached_data, stamp |-> cache_timestamp]

\* d[key] = value
Put(d, key, value) ==
    [k \in DOMAIN d \cup {key} |-> IF k = key THEN value ELSE d[k]]

\* The test every resolver starts with:
\*   key in cached_data and key in cache_timestamp
\*   and datetime.now() - cache_timestamp[key] < cache_validity[key]
CacheValidLe(st, key) ==
    /\ key \in DOMAIN st.data
    /\ key \in DOMAIN st.stamp
    /\ now - st.stamp[key] <= cache_validity[key]

CacheValid(st, key) ==
    /\ key \in DOMAIN st.data
    /\ key \in DOMAIN st.stamp
    /\ now - st.stamp[key] < cache_validity[key]

\* What a resolver hands back: the payload, the store it leaves, and a record
\* of the call: where the payload came from (origin), what became of the
\* fetch if one was made (fetch), when the payload had been fetched, the time
\* of the call, and the stamp the key had before the call (previous).
StampBefore(st, key) == IF key \in DOMAIN st.stamp THEN << st.stamp[key] >> ELSE << >>

\* A hit that stamps the entry again: a sliding expiry.
HitSliding(st, key) ==
    [payload |-> st.data[key],
     store |-> [data |-> st.data, stamp |-> Put(st.stamp, key, now)],
     event |-> [key |-> key, origin |-> "cache", fetch |-> "none",
                fetched_at |-> st.stamp[key], at |-> now,
                previous |-> StampBefore(st, key), payload |-> st.data[key]]]

Hit(st, key) ==
    [payload |-> st.data[key], store |-> st,
     event |-> [key |-> key, origin |-> "cache", fetch |-> "none",
                fetched_at |-> st.stamp[key], at |-> now,
                previous |-> StampBefore(st, key), payload |-> st.data[key]]]

Refreshed(st, key, fresh) ==
    [payload |-> fresh,
     store |-> [data |-> Put(st.data, key, fresh), stamp |-> Put(st.stamp, key, now)],
     event |-> [key |-> key, origin |-> "fetch", fetch |-> "ok",
                fetched_at |-> now, at |-> now,
                previous |-> StampBefore(st, key), payload |-> fresh]]

Defaulted(st, key, default) ==
    [payload |-> default, store |-> st,
     event |-> [key |-> key, origin |-> "default", fetch |-> "failed",
                fetched_at |-> now, at |-> now,
                previous |-> StampBefore(st, key), payload |-> default]]

\* A resolver whose source is self.reference_data or a literal: the fetch
\* cannot fail.
ReadThrough(st, key, fresh) ==
    IF CacheValid(st, key) THEN Hit(st, key) ELSE Refreshed(st, key, fresh)

(***************************************************************************)
(* Reference data and the resolvers, the _get_current_ methods.            *)
(***************************************************************************)
\* A decimal literal of the source: Dec(1, 1715) is 1.1715, Dec(4, 800) is 4.08.
Dec(whole, tenthousandths) == whole * Unit + (tenthousandths * Unit) \div 10000

\* A calendar date, as strftime("%Y-%m-%d") writes it: year, month, day.
Date(y, m, d) == << y, m, d >>

\* self.reference_data (_setup_reference_data)
reference_data ==
    [fed_meetings |-> << [start_date |-> Date(2025, 9, 16), end_date |-> Date(2025, 9, 17)] >>,
     fed_rates |-> [current_range |-> [lower |-> Dec(4, 2500), upper |-> Dec(4, 5000)],
                    effective_rate |-> Dec(4, 3300)],
     rate_probabilities |->
        [fed |-> [hike |-> Dec(0, 0), hold |-> Dec(15, 0),
                  cut_25bp |-> Dec(80, 0), cut_50bp |-> Dec(5, 0)],
         boc |-> [hike |-> Dec(0, 0), hold |-> Dec(30, 0), cut_25bp |-> Dec(70, 0)]],
     dxy_index |-> [current |-> Dec(97, 6100)],
     other_central_banks |->
        [boc |-> [next_meeting |-> Date(2025, 9, 17), current_rate |-> Dec(2, 7500),
                  expected_decision |-> << "c", "u", "t", "_", "2", "5", "b", "p" >>],
         ecb |-> [next_meeting |-> Date(2025, 9, 18), current_rate |-> Dec(3, 5000),
                  expected_decision |-> << "h", "o", "l", "d" >>],
         boe |-> [next_meeting |-> Date(2025, 9, 19), current_rate |-> Dec(4, 0),
                  expected_decision |-> << "h", "o", "l", "d" >>]],
     usd_cad |-> [current |-> Dec(1, 3839), support |-> Dec(1, 3790),
                  resistance |-> Dec(1, 3890)]]

Pairs == {"EUR/USD", "GBP/USD", "USD/JPY"}

\* What requests.get(...) does: it raises, answers with another status than
\* 200, or answers 200 with a body that holds "rates" or does not.
FetchOutcomes == {"exception", "status_500", "ok", "ok_no_rates"}

\* data.get("rates", {}) of a 200 answer: units of currency per dollar.
ResponseRates(outcome) ==
    IF outcome = "ok"
    THEN [c \in {"EUR", "GBP", "JPY"} |->
            CASE c = "EUR" -> Dec(0, 8000) [] c = "GBP" -> Dec(0, 8000) [] c = "JPY" -> Dec(150, 5000)]
    ELSE << >>

\* rates.get(currency, default)
RatesGet(rates, currency, default) ==
    IF currency \in DOMAIN rates THEN rates[currency] ELSE default

\* The cross rates computed from a 200 answer.
CrossRates(rates) ==
    [p \in Pairs |->
        CASE p = "EUR/USD" -> (Unit * Unit) \div RatesGet(rates, "EUR", Dec(1, 0))
          [] p = "GBP/USD" -> (Unit * Unit) \div RatesGet(rates, "GBP", Dec(1, 0))
          [] p = "USD/JPY" -> RatesGet(rates, "JPY", Dec(110, 0))]

default_rates ==
    [p \in Pairs |->
        CASE p = "EUR/USD" -> Dec(1, 1715)
          [] p = "GBP/USD" -> Dec(1, 3530)
          [] p = "USD/JPY" -> Dec(147, 4500)]

\* A resolver that, when the fetch fails, hands back the snapshot it still
\* holds, however old.
ForexServeStale(st, outcome) ==
    IF CacheValid(st, "forex") THEN Hit(st, "forex")
    ELSE IF outcome \in {"ok", "ok_no_rates"}
         THEN Refreshed(st, "forex", CrossRates(ResponseRates(outcome)))
         ELSE IF "forex" \in DOMAIN st.data
              THEN [Hit(st, "forex") EXCEPT !.event.fetch = "failed"]
              ELSE Defaulted(st, "forex", default_rates)

\* A resolver that keeps default_rates in the cache when the fetch fails.
ForexCacheDefault(st, outcome) ==
    IF CacheValid(st, "forex") THEN Hit(st, "forex")
    ELSE IF outcome \in {"ok", "ok_no_rates"}
         THEN Refreshed(st, "forex", CrossRates(ResponseRates(outcome)))
         ELSE [Refreshed(st, "forex", default_rates) EXCEPT
                  !.event.origin = "default", !.event.fetch = "failed"]

\* _get_current_forex_rates: a failed fetch hands back default_rates and
\* leaves the cache as it is.
get_current_forex_rates(st, outcome) ==
    IF CacheValid(st, "forex") THEN Hit(st, "forex")
    ELSE IF outcome \in {"ok", "ok_no_rates"}
         THEN Refreshed(st, "forex", CrossRates(ResponseRates(outcome)))
         ELSE Defaulted(st, "forex", default_rates)

\* "/".join(pair.split("/")[::-1])
InversePair(pair) ==
    CASE pair = "EUR/USD" -> "USD/EUR"
      [] pair = "GBP/USD" -> "USD/GBP"
      [] pair = "USD/JPY" -> "JPY/USD"

\* _get_rate_for_pair; None is written NoRate
NoRate == 0
get_rate_for_pair(pair, rates) ==
    IF pair \in DOMAIN rates THEN rates[pair]
    ELSE IF InversePair(pair) \in DOMAIN rates
         THEN (Unit * Unit) \div rates[InversePair(pair)]
         ELSE NoRate

inflation_data ==
    [m \in {"CPI_headline", "CPI_core"} |->
        CASE m = "CPI_headline" -> Dec(2, 9000) [] m = "CPI_core" -> Dec(3, 1000)]

get_current_inflation_data(st) == ReadThrough(st, "inflation", inflation_data)

\* initial_claims is a count: it is kept in units of one claim.
unemployment_data ==
    [m \in {"unemployment_rate", "initial_claims"} |->
        CASE m = "unemployment_rate" -> Dec(4, 3000) [] m = "initial_claims" -> 240500]

get_current_unemployment_data(st) == ReadThrough(st, "unemployment", unemployment_data)

treasury_yields ==
    [t \in {"2Y", "10Y", "30Y"} |->
        CASE t = "2Y" -> Dec(3, 8500) [] t = "10Y" -> Dec(4, 800) [] t = "30Y" -> Dec(4, 3200)]

get_current_treasury_yields(st) == ReadThrough(st, "treasury", treasury_yields)

get_current_fed_meetings(st) == ReadThrough(st, "fed_calendar", reference_data.fed_meetings)

get_current_fed_rates(st) == ReadThrough(st, "fed_rates", reference_data.fed_rates)

get_current_rate_probabilities(st) ==
    ReadThrough(st, "rate_probabilities", reference_data.rate_probabilities)

get_current_dxy_index(st) == ReadThrough(st, "dxy", reference_data.dxy_index)

get_other_central_banks_data(st) ==
    ReadThrough(st, "central_banks", reference_data.other_central_banks)

(***************************************************************************)
(* Phrases.                                                                *)
(*   pair_quote          "EUR/USD at 1.1715"                               *)
(*   price_pipe          "Current Price: 1.0875 |", also after a pair's    *)
(*                       name: "GBP/USD Current Price: 1.2680 |"           *)
(*   price_for           "Price: 1.1715 for EUR/USD"                       *)
(*   headline_inflation  "headline inflation at 2.9%"                      *)
(*   unemployment_rate   "unemployment rate currently stands at 4.3%"      *)
(*   initial_claims      "initial claims" and what follows: num is the     *)
(*                       first run of digits, points and commas after it   *)
(*   treasury_yield      "10-year Treasury yield currently trades at 4.35%"*)
(*   fomc_meeting        "FOMC meeting on 16-17 September"                 *)
(*   fed_rate_effective  "effective Fed funds rate of 4.33%"               *)
(*   fed_rate_range      "Fed rate range of 4.25-4.50%"                    *)
(*   fed_cut_probability "probability of a Fed rate cut is 80%"            *)
(*   dxy_level           "DXY at 97.61"                                    *)
(*   bank_expected       "BoC is expected to lower its interest rate"      *)
(*   said                "Adam Button said "..."" (sub: the name as        *)
(*                       written, quote: the words between the quotes)     *)
(*   named               "Kathy Lien remains cautious"                     *)
(***************************************************************************)
Phrase(kind, sub, num, num2, quote) ==
    [kind |-> kind, sub |-> sub, num |-> num, num2 |-> num2, quote |-> quote]

None == << >>

\* Character classes of the extraction rules.
AllDigits(s) == \A i \in 1..Len(s) : s[i] \in Digits

\* \d+\.\d{lo,hi}
IsDecimal(s, lo, hi) ==
    /\ DotCount(s) = 1
    /\ DotPos(s) > 1
    /\ AllDigits(SubSeq(s, 1, DotPos(s) - 1))
    /\ AllDigits(SubSeq(s, DotPos(s) + 1, Len(s)))
    /\ Len(s) - DotPos(s) \in lo..hi

\* \d{3}\.?\d{0,2}
IsYenQuote(s) ==
    /\ Len(s) >= 3
    /\ AllDigits(SubSeq(s, 1, 3))
    /\ \/ Len(s) = 3
       \/ /\ s[4] = "."
          /\ AllDigits(SubSeq(s, 5, Len(s)))
          /\ Len(s) - 4 <= 2
       \/ /\ s[4] # "."
          /\ AllDigits(SubSeq(s, 4, Len(s)))
          /\ Len(s) - 3 <= 2

\* \d+\.?\d*
IsNumber(s) ==
    /\ Len(s) >= 1
    /\ s[1] \in Digits
    /\ DotCount(s) <= 1
    /\ \A i \in 1..Len(s) : s[i] \in Digits \cup {"."}

\* [\d\.,]+
IsDigitRun(s) ==
    /\ Len(s) >= 1
    /\ \A i \in 1..Len(s) : s[i] \in Digits \cup {".", ","}

\* re.findall(rule, article): the matches of the rule in each phrase, in order.
RECURSIVE FindAll(_, _)
FindAll(MatchIn(_), text) ==
    IF text = << >> THEN << >> ELSE MatchIn(Head(text)) \o FindAll(MatchIn, Tail(text))

(***************************************************************************)
(* The articles validated.                                                 *)
(***************************************************************************)
\* EUR/USD at 1.1715
EurAtReference ==
    Phrase("pair_quote", "EUR/USD", << "1", ".", "1", "7", "1", "5" >>, None, None)

\* EUR/USD at 1.2000
EurOff ==
    Phrase("pair_quote", "EUR/USD", << "1", ".", "2", "0", "0", "0" >>, None, None)

\* EUR/USD at 1.0100
EurOnePercentOff ==
    Phrase("pair_quote", "EUR/USD", << "1", ".", "0", "1", "0", "0" >>, None, None)

\* Current Price: 1.0875 |
CurrentPrice ==
    Phrase("price_pipe", "", << "1", ".", "0", "8", "7", "5" >>, None, None)

\* Price: 1.1715 for EUR/USD
PriceForEur ==
    Phrase("price_for", "EUR/USD", << "1", ".", "1", "7", "1", "5" >>, None, None)

\* headline inflation at 2.9%
HeadlineInflation ==
    Phrase("inflation_reading", "headline", << "2", ".", "9" >>, None, None)

\* unemployment rate currently stands at 4.3%
UnemploymentRate ==
    Phrase("unemployment_rate", "", << "4", ".", "3" >>, None, None)

\* initial claims, which rose
ClaimsComma ==
    Phrase("initial_claims", "", << "," >>, None, None)

\* 10-year Treasury yield currently trades at 4.35%
TenYearYield ==
    Phrase("treasury_yield", "10Y", << "4", ".", "3", "5" >>, None, None)

\* FOMC meeting on 16-17 September
FomcMeeting ==
    Phrase("fomc_meeting", "September", << "1", "6" >>, << "1", "7" >>, None)

\* effective Fed funds rate of 4.33%
EffectiveRate ==
    Phrase("fed_rate_effective", "", << "4", ".", "3", "3" >>, None, None)

\* Fed rate range of 4.25-4.50%
RateRange ==
    Phrase("fed_rate_range", "", << "4", ".", "2", "5" >>, << "4", ".", "5", "0" >>, None)

\* probability of a Fed rate cut is 80%
CutProbability ==
    Phrase("rate_probability", "fed_cut", << "8", "0" >>, None, None)

\* DXY at 97.61
DxyLevel ==
    Phrase("dxy_level", "", << "9", "7", ".", "6", "1" >>, None, None)

\* BoC is expected to lower its interest rate
BocExpected ==
    Phrase("bank_expected", "boc", None, None, << "lower" >>)

\* Adam Button said 'Markets are pricing in a 80% probability of a 25bp cut in September'
ButtonSaid ==
    Phrase("said", "Adam Button", None, None,
           << "markets", "are", "pricing", "in", "a", "80%", "probability", "of", "a", "25bp", "cut",
              "in", "september" >>)

\* Kathy Lien remains cautious
LienNamed ==
    Phrase("named", "Kathy Lien", None, None, None)

\* John Smith said 'rates will fall'
SmithSaid ==
    Phrase("said", "John Smith", None, None, << "rates", "will", "fall" >>)

\* John Smith said 'inflation eased to 2.9%'
SmithSaidFigure ==
    Phrase("said", "John Smith", None, None,
           << "inflation", "eased", "to", "2.9%" >>)

\* GBP/USD Current Price: 1.2680 |
GbpCurrentPrice ==
    Phrase("price_pipe", "GBP/USD", << "1", ".", "2", "6", "8", "0" >>, None, None)

\* Fed rate range of 4.26-4.51%
RateRangeAbove ==
    Phrase("fed_rate_range", "", << "4", ".", "2", "6" >>, << "4", ".", "5", "1" >>, None)

\* Fed rate range of 4.24-4.49%
RateRangeBelow ==
    Phrase("fed_rate_range", "", << "4", ".", "2", "4" >>, << "4", ".", "4", "9" >>, None)

\* Fed rate range of 4.2601-4.50%
RateRangeJustOff ==
    Phrase("fed_rate_range", "", << "4", ".", "2", "6", "0", "1" >>, << "4", ".", "5", "0" >>, None)

\* Fed rate range of 4.00-4.25%
RateRangeOld ==
    Phrase("fed_rate_range", "", << "4", ".", "0", "0" >>, << "4", ".", "2", "5" >>, None)

\* probability of a Fed rate cut is 95%
CutProbabilityEdge ==
    Phrase("rate_probability", "fed_cut", << "9", "5" >>, None, None)

\* probability of a Fed 25bp rate cut is 80%
Cut25Probability ==
    Phrase("rate_probability", "fed_cut_25bp", << "8", "0" >>, None, None)

\* probability of a Fed 50bp rate cut is 15.5%
Cut50ProbabilityOff ==
    Phrase("rate_probability", "fed_cut_50bp", << "1", "5", ".", "5" >>, None, None)

\* probability of a Fed rate hold is 25%
HoldProbabilityEdge ==
    Phrase("rate_probability", "fed_hold", << "2", "5" >>, None, None)

\* probability of a BoC rate cut is 70%
BocCutProbability ==
    Phrase("rate_probability", "boc_cut", << "7", "0" >>, None, None)

\* DXY at 98.5861
DxyOnePercentAbove ==
    Phrase("dxy_level", "", << "9", "8", ".", "5", "8", "6", "1" >>, None, None)

\* DXY at 96.6339
DxyOnePercentBelow ==
    Phrase("dxy_level", "", << "9", "6", ".", "6", "3", "3", "9" >>, None, None)

\* DXY at 98.5860
DxyJustWithin ==
    Phrase("dxy_level", "", << "9", "8", ".", "5", "8", "6", "0" >>, None, None)

\* DXY trading between 97.50 and 98.20
DxyRangeAround ==
    Phrase("dxy_range", "", << "9", "7", ".", "5", "0" >>, << "9", "8", ".", "2", "0" >>, None)

\* DXY trading between 97.61 and 98.20
DxyRangeFromLevel ==
    Phrase("dxy_range", "", << "9", "7", ".", "6", "1" >>, << "9", "8", ".", "2", "0" >>, None)

\* DXY trading between 98.00 and 99.00
DxyRangeAbove ==
    Phrase("dxy_range", "", << "9", "8", ".", "0", "0" >>, << "9", "9", ".", "0", "0" >>, None)

\* ECB is expected to maintain its interest rate
EcbExpectedMaintain ==
    Phrase("bank_expected", "ecb", None, None, << "maintain" >>)

\* ECB is expected to reduce its interest rate
EcbExpectedReduce ==
    Phrase("bank_expected", "ecb", None, None, << "reduce" >>)

\* BoE is expected to raise its interest rate
BoeExpectedRaise ==
    Phrase("bank_expected", "boe", None, None, << "raise" >>)

\* BoC is expected to keep unchanged its interest rate
BocExpectedKeep ==
    Phrase("bank_expected", "boc", None, None, << "keep unchanged" >>)

\* BoJ is expected to hold its interest rate
BojExpectedHold ==
    Phrase("bank_expected", "boj", None, None, << "hold" >>)

\* FOMC meeting on 16 September
FomcSingleDay ==
    Phrase("fomc_meeting", "September", << "1", "6" >>, None, None)

\* FOMC meeting on 17-18 September
FomcLater ==
    Phrase("fomc_meeting", "September", << "1", "7" >>, << "1", "8" >>, None)

\* FOMC meeting on 16-17 October
FomcOctober ==
    Phrase("fomc_meeting", "October", << "1", "6" >>, << "1", "7" >>, None)

\* FOMC meeting on September 16-17
FomcMonthFirst ==
    Phrase("fomc_meeting_month_first", "September", << "1", "6" >>, << "1", "7" >>, None)

\* 16-17 September FOMC meeting
FomcAfter ==
    Phrase("fomc_meeting_after", "September", << "1", "6" >>, << "1", "7" >>, None)

\* BoC meeting on 17 September
BocMeeting ==
    Phrase("bank_meeting", "boc", << "1", "7" >>, None, << "September" >>)

\* BoC meeting on September 17
BocMeetingMonthFirst ==
    Phrase("bank_meeting_month_first", "boc", << "1", "7" >>, None, << "September" >>)

\* ECB meeting on 17 September
EcbMeetingEarly ==
    Phrase("bank_meeting", "ecb", << "1", "7" >>, None, << "September" >>)

\* BoE meeting on 19 Sept
BoeMeeting ==
    Phrase("bank_meeting", "boe", << "1", "9" >>, None, << "Sept" >>)

\* EUR/USD at 1.2625
EurOnePercentAbove ==
    Phrase("pair_quote", "EUR/USD", << "1", ".", "2", "6", "2", "5" >>, None, None)

\* EUR/USD at 1.2626
EurJustOff ==
    Phrase("pair_quote", "EUR/USD", << "1", ".", "2", "6", "2", "6" >>, None, None)

\* Adam Button said 'Markets are pricing in a 25bp cut'
ButtonSaidShort ==
    Phrase("said", "Adam Button", None, None,
           << "markets", "are", "pricing", "in", "a", "25bp", "cut" >>)

\* Adam Button remains cautious
ButtonNamed ==
    Phrase("named", "Adam Button", None, None, None)

\* John Smith said 'EUR/USD trades at 1.17'
SmithSaidRate ==
    Phrase("said", "John Smith", None, None, << "eur/usd", "trades", "at", "1.17" >>)

\* Fed said 'rates will fall'
FedSaid ==
    Phrase("said", "Fed", None, None, << "rates", "will", "fall" >>)

\* ECB said 'rates will fall'
EcbSaid ==
    Phrase("said", "ECB", None, None, << "rates", "will", "fall" >>)

\* Bank of England said 'rates will stay'
BankOfEnglandSaid ==
    Phrase("said", "Bank of England", None, None, << "rates", "will", "stay" >>)

\* EUR/USD at 1.5
EurAtUpperBound ==
    Phrase("pair_quote", "EUR/USD", << "1", ".", "5" >>, None, None)

\* EUR/USD at 1.5001
EurAboveRange ==
    Phrase("pair_quote", "EUR/USD", << "1", ".", "5", "0", "0", "1" >>, None, None)

\* EUR/USD at 1.0
EurAtLowerBound ==
    Phrase("pair_quote", "EUR/USD", << "1", ".", "0" >>, None, None)

\* EUR/USD at 0.9999
EurBelowRange ==
    Phrase("pair_quote", "EUR/USD", << "0", ".", "9", "9", "9", "9" >>, None, None)

\* USD/JPY at 160
YenAtUpperBound ==
    Phrase("pair_quote", "USD/JPY", << "1", "6", "0" >>, None, None)

\* USD/JPY at 160.01
YenAboveRange ==
    Phrase("pair_quote", "USD/JPY", << "1", "6", "0", ".", "0", "1" >>, None, None)

\* USD/JPY at 100
YenAtLowerBound ==
    Phrase("pair_quote", "USD/JPY", << "1", "0", "0" >>, None, None)

\* Price: 1.5000 for GBP/USD
PriceForGbpAtUpperBound ==
    Phrase("price_for", "GBP/USD", << "1", ".", "5", "0", "0", "0" >>, None, None)

\* Price: 1.5001 for GBP/USD
PriceForGbpAboveRange ==
    Phrase("price_for", "GBP/USD", << "1", ".", "5", "0", "0", "1" >>, None, None)

Tokens ==
    {EurAtReference, EurOff, EurOnePercentOff, CurrentPrice, PriceForEur,
     HeadlineInflation, UnemploymentRate, ClaimsComma, TenYearYield,
     FomcMeeting, EffectiveRate, RateRange, CutProbability, DxyLevel,
     BocExpected, ButtonSaid, LienNamed, SmithSaid, SmithSaidFigure}

\* "Current Price: 1.0875 | GBP/USD Current Price: 1.2680 | 10-year Treasury
\* yield currently trades at 4.35%"
SelfTestArticle == << CurrentPrice, GbpCurrentPrice, TenYearYield >>

\* Phrases that state a figure at the edge of a tolerance, or that one rule
\* reads and another does not.
EdgeTokens ==
    {RateRangeAbove, RateRangeBelow, RateRangeJustOff, RateRangeOld,
     CutProbabilityEdge, Cut25Probability, Cut50ProbabilityOff, HoldProbabilityEdge,
     BocCutProbability,
     DxyOnePercentAbove, DxyOnePercentBelow, DxyJustWithin, DxyRangeAround,
     DxyRangeFromLevel, DxyRangeAbove,
     EcbExpectedMaintain, EcbExpectedReduce, BoeExpectedRaise, BocExpectedKeep,
     BojExpectedHold,
     FomcSingleDay, FomcLater, FomcOctober, FomcMonthFirst, FomcAfter,
     BocMeeting, BocMeetingMonthFirst, EcbMeetingEarly, BoeMeeting,
     EurOnePercentAbove, EurJustOff,
     ButtonSaidShort,
     SmithSaidRate, FedSaid, EcbSaid, BankOfEnglandSaid,
     EurAtUpperBound, EurAboveRange, EurAtLowerBound, EurBelowRange, YenAtUpperBound, YenAboveRange, YenAtLowerBound, PriceForGbpAtUpperBound, PriceForGbpAboveRange}

\* Articles of several such phrases.
EdgeArticles ==
    {<< RateRange, RateRangeOld >>,
     << HeadlineInflation, BojExpectedHold, UnemploymentRate >>,
     << EurAboveRange, EurAtUpperBound, YenAboveRange >>,
     << ButtonNamed, ButtonSaid, ButtonNamed >>,
     << ButtonNamed, LienNamed, ButtonNamed >>}

\* Every article of at most MaxLen phrases, the one above, and the articles
\* of phrases at the edges.
Articles ==
    UNION {[1..n -> Tokens] : n \in 0..MaxLen} \cup {SelfTestArticle}
    \cup {<< t >> : t \in EdgeTokens} \cup EdgeArticles

(***************************************************************************)
(* The differences the validators compare, on doubles.  They are computed  *)
(* once for every value an article of the model states and every value a   *)
(* snapshot holds, and read from there.                                    *)
(***************************************************************************)
\* float(s) for a numeral worth v units of 10^-4, and the double of a literal
Double(v) == Binary64(v, Unit)

\* The literals the differences are compared with.
Lit_0_01 == Binary64(1, 100)
Lit_0_05 == Binary64(5, 100)
Lit_0_1 == Binary64(1, 10)
Lit_0_15 == Binary64(15, 100)
Lit_0_25 == Binary64(25, 100)
Lit_0_5 == Binary64(5, 10)
Lit_1_0 == Binary64(1, 1)
Lit_10_0 == Binary64(10, 1)
Lit_100 == Binary64(100, 1)

\* abs(a - c)
AbsDiff(a, c) == B64Abs(B64Sub(Double(a), Double(c)))

\* abs((a - c) / c * 100)
AbsDiffPct(a, c) ==
    B64Abs(B64Mul(B64Div(B64Sub(Double(a), Double(c)), Double(c)), Lit_100))

Phrases == UNION {{a[i] : i \in DOMAIN a} : a \in Articles}

Numerals == UNION {{ph.num, ph.num2} : ph \in Phrases}

\* The values float() gives for the numerals of the articles.
Stated ==
    {Float(s) : s \in {c \in {CleanMatch(n) : n \in Numerals} \cup {CleanInflation(n) : n \in Numerals} :
                          CanFloat(c)}}

ForexHeld ==
    UNION {{rates[p] : p \in Pairs} :
              rates \in {default_rates, CrossRates(ResponseRates("ok")),
                         CrossRates(ResponseRates("ok_no_rates"))}}

\* The values held by the snapshots that are compared by a relative difference.
HeldRelative ==
    ForexHeld \cup {reference_data.dxy_index.current, reference_data.usd_cad.current,
                    reference_data.usd_cad.support, reference_data.usd_cad.resistance}

\* The values held by the snapshots that are compared by a difference.
HeldAbsolute ==
    {inflation_data[m] : m \in DOMAIN inflation_data}
    \cup {unemployment_data.unemployment_rate}
    \cup {treasury_yields[t] : t \in DOMAIN treasury_yields}
    \cup {reference_data.fed_rates.current_range.lower, reference_data.fed_rates.current_range.upper,
          reference_data.fed_rates.effective_rate}
    \cup {reference_data.other_central_banks[b].current_rate :
             b \in DOMAIN reference_data.other_central_banks}
    \cup LET p == reference_data.rate_probabilities
         IN {p.fed.hike, p.fed.hold, p.fed.cut_25bp, p.fed.cut_50bp,
             p.fed.cut_25bp + p.fed.cut_50bp, p.boc.hold, p.boc.cut_25bp}

diffs == [p \in Stated \X HeldAbsolute |-> AbsDiff(p[1], p[2])]

diff_pcts == [p \in Stated \X HeldRelative |-> AbsDiffPct(p[1], p[2])]

\* diff = abs(article_value - current_value)
diff(a, c) == diffs[<< a, c >>]

\* diff_pct = abs((article_value - current_value) / current_value * 100)
diff_pct(a, c) == diff_pcts[<< a, c >>]

\* A validator that starts from what the forex validator has reported.
ForexReportCarried ==
    IF "forex_rates" \in DOMAIN results
    THEN results["forex_rates"]
    ELSE [metrics_found |-> 0, metrics_accurate |-> 0, details |-> << >>]

EmptyReport == [metrics_found |-> 0, metrics_accurate |-> 0, details |-> << >>]

\* results["metrics_found"] += 1; if is_accurate: results["metrics_accurate"] += 1;
\* results["details"].append(detail)
\* A tally that steps metrics_found only for a claim found inaccurate.
CountElse(res, detail) ==
    [metrics_found |-> res.metrics_found + (IF detail.is_accurate THEN 0 ELSE 1),
     metrics_accurate |-> res.metrics_accurate + (IF detail.is_accurate THEN 1 ELSE 0),
     details |-> Append(res.details, detail)]

\* A tally that steps the counters and keeps no detail.
CountUnrecorded(res, detail) ==
    [metrics_found |-> res.metrics_found + 1,
     metrics_accurate |-> res.metrics_accurate + (IF detail.is_accurate THEN 1 ELSE 0),
     details |-> res.details]

Count(res, detail) ==
    [metrics_found |-> res.metrics_found + 1,
     metrics_accurate |-> res.metrics_accurate + (IF detail.is_accurate THEN 1 ELSE 0),
     details |-> Append(res.details, detail)]

\* What processing one match leaves: the category report, the validator's
\* processed_values, whether an exception left the validator, and the store.
Outcome(res, seen, raised) == [res |-> res, seen |-> seen, raised |-> raised]

\* round(n / d, 0) as Python rounds: to the nearest integer, a tie to the even one.
RoundHalfEven(n, d) ==
    LET q == n \div d
        r == n % d
    IN IF 2 * r < d THEN q
       ELSE IF 2 * r > d THEN q + 1
       ELSE IF q % 2 = 0 THEN q ELSE q + 1

\* abs((a - r) / r * 100) in hundredths, as round(diff_pct, 2) gives it
DiffPct(a, r) ==
    LET n == Abs(a - r) * 100
    IN (n \div Abs(r)) * 100 + RoundHalfEven((n % Abs(r)) * 100, Abs(r))

(***************************************************************************)
(* _validate_forex_rates                                                   *)
(***************************************************************************)
PairNumeral(pair, s, lo) ==
    IF pair = "USD/JPY" THEN IsYenQuote(s) ELSE IsDecimal(s, lo, 4)

\* patterns[pair]: the pair's name, an optional connective, the quote
ForexPatternMatch(pair, ph) ==
    IF ph.kind = "pair_quote" /\ ph.sub = pair /\ PairNumeral(pair, ph.num, 1)
    THEN << [rule |-> "pattern", pair |-> pair, m |-> ph.num] >>
    ELSE << >>

\* context_patterns[pair + "_context"]: "Price: <quote>" followed by "|" or by
\* "for <pair>": ... \s*(?:\||for EUR/USD)
ForexContextMatch(pair, ph) ==
    IF /\ \/ ph.kind = "price_pipe"
          \/ ph.kind = "price_for" /\ ph.sub = pair
       /\ PairNumeral(pair, ph.num, 4)
    THEN << [rule |-> "context", pair |-> pair, m |-> ph.num] >>
    ELSE << >>

PairOrder == << "EUR/USD", "GBP/USD", "USD/JPY" >>

\* The matches in the order the two loops meet them: patterns, then context
\* patterns, each pair by pair.
ForexMatches(text) ==
    Flatten([i \in 1..3 |-> FindAll(LAMBDA ph : ForexPatternMatch(PairOrder[i], ph), text)])
    \o Flatten([i \in 1..3 |-> FindAll(LAMBDA ph : ForexContextMatch(PairOrder[i], ph), text)])

\* The ranges without their bounds.
ForexRealisticOpen(pair, v) ==
    \/ pair = "EUR/USD" /\ Dec(1, 0) < v /\ v < Dec(1, 5000)
    \/ pair = "GBP/USD" /\ Dec(1, 0) < v /\ v < Dec(1, 5000)
    \/ pair = "USD/JPY" /\ Dec(100, 0) < v /\ v < Dec(160, 0)

\* is_realistic
ForexRealistic(pair, v) ==
    \/ pair = "EUR/USD" /\ Dec(1, 0) <= v /\ v <= Dec(1, 5000)
    \/ pair = "GBP/USD" /\ Dec(1, 0) <= v /\ v <= Dec(1, 5000)
    \/ pair = "USD/JPY" /\ Dec(100, 0) <= v /\ v <= Dec(160, 0)

\* diff_pct < 1.0 with diff_pct = abs((article_rate - current_rate) / current_rate * 100)
ForexAccurateLe(article_rate, current_rate) ==
    B64Le(diff_pct(article_rate, current_rate), Lit_1_0)

ForexAccurate(article_rate, current_rate) ==
    B64Lt(diff_pct(article_rate, current_rate), Lit_1_0)

\* f"{pair}:{cleaned_match}"
ForexKey(pair, cleaned_match) == << pair, cleaned_match >>

\* The body of both loops for one match.
ForexMatch(res, seen, current_rates, item) ==
    LET cleaned_match == CleanMatch(item.m)
        key == ForexKey(item.pair, cleaned_match)
    IN IF key \in seen THEN Outcome(res, seen, FALSE)
       ELSE IF ~CanFloat(cleaned_match) THEN Outcome(res, seen \cup {key}, TRUE)
       ELSE LET article_rate == Float(cleaned_match)
                current_rate == get_rate_for_pair(item.pair, current_rates)
            IN IF ForexRealistic(item.pair, article_rate) /\ current_rate # NoRate
               THEN Outcome(Count(res, [pair |-> item.pair,
                                        article_value |-> article_rate,
                                        current_value |-> current_rate,
                                        difference_pct |-> DiffPct(article_rate, current_rate),
                                        is_accurate |-> ForexAccurate(article_rate, current_rate)]),
                            seen \cup {key}, FALSE)
               ELSE Outcome(res, seen \cup {key}, FALSE)

(***************************************************************************)
(* validate_article_data: the validators are called in the order of the    *)
(* results dictionary; each call resolves its snapshot, collects the       *)
(* matches of its rules and then processes them one by one.                *)
(***************************************************************************)
categories ==
    << "forex_rates", "inflation_data", "unemployment_data", "treasury_yields",
       "fed_meetings", "fed_rates", "rate_probabilities", "dxy_index",
       "other_central_banks", "expert_citations" >>

CategorySet == {categories[i] : i \in 1..Len(categories)}

Entered(cat, r, items) ==
    /\ pc' = cat
    /\ cached_data' = r.store.data
    /\ cache_timestamp' = r.store.stamp
    /\ served' = << r.event >>
    /\ snapshot' = r.payload
    /\ work' = items
    /\ processed_values' = {}
    /\ UNCHANGED << now, article, history, ticks, ops, source, running, in_flight >>

\* A validator is called once the one before it has returned.
Enter(cat, from, r, items) ==
    /\ pc = from
    /\ work = << >>
    /\ Entered(cat, r, items)
    /\ results' = Put(results, cat, EmptyReport)
    /\ called' = Append(called, cat)
    /\ all_hits' = (all_hits /\ r.event.origin = "cache")
    /\ UNCHANGED passes

\* One turn of a validator's loop over its matches; an exception leaves
\* validate_article_data.
Loop(cat, out) ==
    /\ results' = [results EXCEPT ![cat] = out.res]
    /\ processed_values' = out.seen
    /\ IF out.raised
       THEN pc' = "raised" /\ work' = << >>
       ELSE pc' = pc /\ work' = Tail(work)
    /\ UNCHANGED << now, article, snapshot, called, history, passes, ticks, ops, source, running, in_flight >>

\* A call that goes on from the forex report of the call before it.
ValidateArticleDataKeeping ==
    /\ pc = "idle"
    /\ \E outcome \in source :
         LET r == get_current_forex_rates(Store, outcome)
         IN /\ Entered("forex_rates", r, ForexMatches(article))
            /\ all_hits' = (r.event.origin = "cache")
    /\ results' = IF "forex_rates" \in DOMAIN results
                  THEN results ELSE Put(<< >>, "forex_rates", EmptyReport)
    /\ called' = << "forex_rates" >>
    /\ passes' = passes + 1

\* validate_article_data(article_content) is called: _validate_forex_rates runs first.
ValidateArticleData ==
    /\ pc = "idle"
    /\ \E outcome \in source :
         LET r == get_current_forex_rates(Store, outcome)
         IN /\ Entered("forex_rates", r, ForexMatches(article))
            /\ all_hits' = (r.event.origin = "cache")
    /\ results' = Put(<< >>, "forex_rates", EmptyReport)
    /\ called' = << "forex_rates" >>
    /\ passes' = passes + 1

ForexRatesMatch ==
    /\ pc = "forex_rates"
    /\ work # << >>
    /\ Loop("forex_rates",
            ForexMatch(results["forex_rates"], processed_values, snapshot, Head(work)))
    /\ served' = << >>
    /\ UNCHANGED << cached_data, cache_timestamp, all_hits >>

(***************************************************************************)
(* _validate_inflation_data                                                *)
(***************************************************************************)
\* str.lower() of the words the validators lower-case: metric names and the
\* names of people.
Lower(w) ==
    CASE w = "CPI_headline" -> "cpi_headline"
      [] w = "CPI_core" -> "cpi_core"
      [] w = "Adam Button" -> "adam button"
      [] w = "Kathy Lien" -> "kathy lien"
      [] w = "John Smith" -> "john smith"
      [] w = "Fed" -> "fed"
      [] w = "ECB" -> "ecb"
      [] w = "Bank" -> "bank"
      [] w = "Bank of England" -> "bank of england"
      [] OTHER -> w

InflationMetrics == << "CPI_headline", "CPI_core" >>

InflationWord(metric) == IF metric = "CPI_headline" THEN "headline" ELSE "core"

\* patterns[metric]: "<headline|core> inflation", a connective, \d+[.,]\d+, "%"
InflationPatternMatch(metric, ph) ==
    IF /\ ph.kind = "inflation_reading"
       /\ ph.sub = InflationWord(metric)
       /\ IsDecimal(ReplaceComma(ph.num), 1, Len(ph.num))
    THEN << [rule |-> "pattern", metric |-> metric, m |-> ph.num] >>
    ELSE << >>

\* context_patterns[metric]: of the rules of each list the first one reads the
\* same phrase again
InflationContextMatch(metric, ph) ==
    IF /\ ph.kind = "inflation_reading"
       /\ ph.sub = InflationWord(metric)
       /\ IsDecimal(ReplaceComma(ph.num), 1, Len(ph.num))
    THEN << [rule |-> "context", metric |-> metric, m |-> ph.num] >>
    ELSE << >>

InflationMatches(text) ==
    Flatten([i \in 1..2 |->
        FindAll(LAMBDA ph : InflationPatternMatch(InflationMetrics[i], ph), text)])
    \o Flatten([i \in 1..2 |->
        FindAll(LAMBDA ph : InflationContextMatch(InflationMetrics[i], ph), text)])

\* is_realistic_inflation
InflationRealistic(v) == Dec(0, 0) <= v /\ v <= Dec(20, 0)

\* The loop body that counts a claim whose metric the snapshot does not hold,
\* as inaccurate.
InflationMatchCounting(res, seen, current_inflation, item) ==
    LET value_str == CleanInflation(item.m)
    IN IF ~CanFloat(value_str) THEN Outcome(res, seen, FALSE)
       ELSE LET article_value == Float(value_str)
            IN IF InflationRealistic(article_value) /\ article_value \notin seen
               THEN Outcome(Count(res,
                        [metric |-> item.metric,
                         article_value |-> article_value,
                         current_value |-> 0,
                         is_accurate |-> FALSE,
                         difference |-> 0,
                         context |-> item.rule]),
                      seen \cup {article_value}, FALSE)
               ELSE Outcome(res, seen, FALSE)

\* The body of both loops for one match.  A value float() rejects is reported
\* and skipped; current_inflation.get(metric.lower(), None) is looked up under
\* the lower-cased name.
InflationMatch(res, seen, current_inflation, item) ==
    LET value_str == CleanInflation(item.m)
    IN IF ~CanFloat(value_str) THEN Outcome(res, seen, FALSE)
       ELSE LET article_value == Float(value_str)
            IN IF InflationRealistic(article_value) /\ article_value \notin seen
               THEN IF Lower(item.metric) \in DOMAIN current_inflation
                    THEN LET current_value == current_inflation[Lower(item.metric)]
                         IN Outcome(Count(res,
                                [metric |-> item.metric,
                                 article_value |-> article_value,
                                 current_value |-> current_value,
                                 is_accurate |-> B64Le(diff(article_value, current_value), Lit_0_1),
                                 difference |-> RoundHalfEven(Abs(article_value - current_value), Unit \div 100),
                                 context |-> item.rule]),
                              seen \cup {article_value}, FALSE)
                    ELSE Outcome(res, seen \cup {article_value}, FALSE)
               ELSE Outcome(res, seen, FALSE)

(***************************************************************************)
(* _validate_unemployment_data                                             *)
(***************************************************************************)
UnemploymentMetrics == << "unemployment_rate", "initial_claims" >>

\* patterns[metric]: "unemployment", anything but "%", [\d\.,]+, "%"; and
\* "initial claims", anything but a digit, [\d\.,]+
UnemploymentPatternMatch(metric, ph) ==
    IF ph.kind = metric /\ IsDigitRun(ph.num)
    THEN << [rule |-> "pattern", metric |-> metric, m |-> ph.num] >>
    ELSE << >>

UnemploymentMatches(text) ==
    Flatten([i \in 1..2 |->
        FindAll(LAMBDA ph : UnemploymentPatternMatch(UnemploymentMetrics[i], ph), text)])

\* The body of the loop for one match: float(cleaned_match) is not guarded.
UnemploymentMatch(res, seen, current_unemployment, item) ==
    LET cleaned_match == CleanMatch(item.m)
    IN IF ~CanFloat(cleaned_match) THEN Outcome(res, seen, TRUE)
       ELSE LET current_value == current_unemployment[item.metric]
            IN IF current_value = 0 THEN Outcome(res, seen, FALSE)
               ELSE IF item.metric = "unemployment_rate"
               THEN LET article_value == Float(cleaned_match)
                    IN Outcome(Count(res,
                           [metric |-> item.metric,
                            article_value |-> article_value,
                            current_value |-> current_value,
                            difference |-> RoundHalfEven(Abs(article_value - current_value), Unit \div 100),
                            is_accurate |-> B64Le(diff(article_value, current_value), Lit_0_1)]),
                         seen, FALSE)
               ELSE LET article_value == ToFixed(cleaned_match, 0)
                    IN Outcome(Count(res,
                           [metric |-> item.metric,
                            article_value |-> article_value,
                            current_value |-> current_value,
                            difference |-> DiffPct(article_value, current_value),
                            is_accurate |-> Abs(article_value - current_value) * 100 < 2 * Abs(current_value)]),
                         seen, FALSE)

(***************************************************************************)
(* _validate_treasury_yields                                               *)
(***************************************************************************)
Tenors == << "10Y", "2Y", "30Y" >>

\* patterns[tenor]: "10-year", anything but "%", [\d\.,]+, "%"
TreasuryPatternMatch(tenor, ph) ==
    IF ph.kind = "treasury_yield" /\ ph.sub = tenor /\ IsDigitRun(ph.num)
    THEN << [rule |-> "pattern", tenor |-> tenor, m |-> ph.num] >>
    ELSE << >>

TreasuryMatches(text) ==
    Flatten([i \in 1..3 |->
        FindAll(LAMBDA ph : TreasuryPatternMatch(Tenors[i], ph), text)])

\* The body of the loop for one match: float(cleaned_match) is not guarded.
TreasuryMatch(res, seen, current_yields, item) ==
    LET cleaned_match == CleanMatch(item.m)
    IN IF ~CanFloat(cleaned_match) THEN Outcome(res, seen, TRUE)
       ELSE LET article_value == Float(cleaned_match)
                current_value == current_yields[item.tenor]
            IN IF current_value = 0 THEN Outcome(res, seen, FALSE)
               ELSE Outcome(Count(res,
                       [tenor |-> item.tenor,
                        article_value |-> article_value,
                        current_value |-> current_value,
                        difference |-> RoundHalfEven(Abs(article_value - current_value), Unit \div 100),
                        is_accurate |-> B64Le(diff(article_value, current_value), Lit_0_15)]),
                     seen, FALSE)

(***************************************************************************)
(* _validate_fed_meetings                                                  *)
(***************************************************************************)
\* month_to_number; None is written NoMonth
NoMonth == 0
month_to_number(month_name) ==
    CASE month_name \in {"January", "january", "Jan", "jan"} -> 1
      [] month_name \in {"February", "february", "Feb", "feb"} -> 2
      [] month_name \in {"March", "march", "Mar", "mar"} -> 3
      [] month_name \in {"April", "april", "Apr", "apr"} -> 4
      [] month_name \in {"May", "may"} -> 5
      [] month_name \in {"June", "june", "Jun", "jun"} -> 6
      [] month_name \in {"July", "july", "Jul", "jul"} -> 7
      [] month_name \in {"August", "august", "Aug", "aug"} -> 8
      [] month_name \in {"September", "september", "Sep", "sep", "Sept", "sept"} -> 9
      [] month_name \in {"October", "october", "Oct", "oct"} -> 10
      [] month_name \in {"November", "november", "Nov", "nov"} -> 11
      [] month_name \in {"December", "december", "Dec", "dec"} -> 12
      [] OTHER -> NoMonth

\* \d{1,2}
IsDay(s) == Len(s) \in 1..2 /\ AllDigits(s)

\* date(year, month, day) does not raise ValueError
ValidDate(year, month, day) == month \in 1..12 /\ day >= 1 /\ day <= DaysIn(month)

FedMeetingRules == << "fomc_meeting_date", "fomc_meeting_range", "fomc_meeting_explicit" >>

\* The groups each rule captures.  "FOMC meeting on 16-17 September" is read by
\* fomc_meeting_date as (16, 17, September) and by fomc_meeting_explicit, whose
\* first group is any word, as (on, 16, 17); "16-17 September FOMC meeting" by
\* fomc_meeting_range; "FOMC meeting on September 16-17" by fomc_meeting_explicit.
FedMeetingRuleMatch(rule, ph) ==
    IF ph.kind \notin {"fomc_meeting", "fomc_meeting_after", "fomc_meeting_month_first"}
       \/ ~IsDay(ph.num) \/ ~(ph.num2 = None \/ IsDay(ph.num2))
    THEN << >>
    ELSE CASE rule = "fomc_meeting_date" /\ ph.kind = "fomc_meeting" ->
                << [rule |-> rule, groups |-> << ph.num, ph.num2, ph.sub >>] >>
           [] rule = "fomc_meeting_explicit" /\ ph.kind = "fomc_meeting" ->
                << [rule |-> rule, groups |-> << "on", ph.num, ph.num2 >>] >>
           [] rule = "fomc_meeting_range" /\ ph.kind = "fomc_meeting_after" /\ ph.num2 # None ->
                << [rule |-> rule, groups |-> << ph.num, ph.num2, ph.sub >>] >>
           [] rule = "fomc_meeting_explicit" /\ ph.kind = "fomc_meeting_month_first" ->
                << [rule |-> rule, groups |-> << ph.sub, ph.num, ph.num2 >>] >>
           [] OTHER -> << >>

FedMeetingMatches(text) ==
    Flatten([i \in 1..3 |->
        FindAll(LAMBDA ph : FedMeetingRuleMatch(FedMeetingRules[i], ph), text)])

\* The body of the loop for one match.  The year is the current one; a date
\* that does not exist is skipped.
FedMeetingMatch(res, seen, current_fed_meetings, item) ==
    LET g == item.groups
        explicit == item.rule = "fomc_meeting_explicit"
        month == month_to_number(IF explicit THEN g[1] ELSE g[3])
        day_start == IntOf(IF explicit THEN g[2] ELSE g[1])
        end_digits == IF explicit THEN g[3] ELSE g[2]
        day_end == IF end_digits = None THEN day_start ELSE IntOf(end_digits)
        year == YearOf(now)
    IN IF month = NoMonth THEN Outcome(res, seen, FALSE)
       ELSE IF ~(ValidDate(year, month, day_start) /\ ValidDate(year, month, day_end))
       THEN Outcome(res, seen, FALSE)
       ELSE Outcome(Count(res,
               [type |-> "fomc_meeting_date",
                article_value |-> << day_start, day_end, g[3] >>,
                current_value |-> << current_fed_meetings[1].start_date,
                                     current_fed_meetings[1].end_date >>,
                is_accurate |->
                    \E i \in 1..Len(current_fed_meetings) :
                        /\ Date(year, month, day_start) = current_fed_meetings[i].start_date
                        /\ Date(year, month, day_end) = current_fed_meetings[i].end_date]),
             seen, FALSE)

(***************************************************************************)
(* _validate_fed_rates                                                     *)
(***************************************************************************)
FedRateRules == << "fed_rate_range", "fed_rate_single", "fed_rate_effective" >>

\* "Fed rate range of 4.25-4.50%" is read by fed_rate_range, "Fed rate at
\* 4.33%" by fed_rate_single, and "effective Fed funds rate of 4.33%" by both
\* fed_rate_single and fed_rate_effective.
FedRateRuleMatch(rule, ph) ==
    CASE rule = "fed_rate_range" /\ ph.kind = "fed_rate_range"
            /\ IsNumber(ph.num) /\ IsNumber(ph.num2) ->
            << [rule |-> rule, m |-> ph.num, m2 |-> ph.num2] >>
      [] rule = "fed_rate_single" /\ ph.kind \in {"fed_rate_single", "fed_rate_effective"}
            /\ IsNumber(ph.num) ->
            << [rule |-> rule, m |-> ph.num, m2 |-> None] >>
      [] rule = "fed_rate_effective" /\ ph.kind = "fed_rate_effective" /\ IsNumber(ph.num) ->
            << [rule |-> rule, m |-> ph.num, m2 |-> None] >>
      [] OTHER -> << >>

FedRateMatches(text) ==
    Flatten([i \in 1..3 |->
        FindAll(LAMBDA ph : FedRateRuleMatch(FedRateRules[i], ph), text)])

\* The comparisons made on the decimal figures instead of on doubles.
FedRateMatchDecimal(res, seen, current_fed_rates, item) ==
    IF item.rule = "fed_rate_range"
    THEN LET lower_rate == Float(item.m)
             upper_rate == Float(item.m2)
         IN Outcome(Count(res,
                [type |-> "fed_rate_range",
                 article_value |-> << lower_rate, upper_rate >>,
                 current_value |-> << current_fed_rates.current_range.lower,
                                      current_fed_rates.current_range.upper >>,
                 is_accurate |->
                     /\ Abs(lower_rate - current_fed_rates.current_range.lower) * 100 < Unit
                     /\ Abs(upper_rate - current_fed_rates.current_range.upper) * 100 < Unit]),
              seen, FALSE)
    ELSE LET rate == Float(item.m)
         IN Outcome(Count(res,
                [type |-> item.rule,
                 article_value |-> << rate >>,
                 current_value |-> << current_fed_rates.effective_rate >>,
                 is_accurate |-> Abs(rate - current_fed_rates.effective_rate) * 100 < 5 * Unit]),
              seen, FALSE)

\* The body of the loop for one match.
FedRateMatch(res, seen, current_fed_rates, item) ==
    IF item.rule = "fed_rate_range"
    THEN LET lower_rate == Float(item.m)
             upper_rate == Float(item.m2)
         IN Outcome(Count(res,
                [type |-> "fed_rate_range",
                 article_value |-> << lower_rate, upper_rate >>,
                 current_value |-> << current_fed_rates.current_range.lower,
                                      current_fed_rates.current_range.upper >>,
                 is_accurate |->
                     /\ B64Lt(diff(lower_rate, current_fed_rates.current_range.lower), Lit_0_01)
                     /\ B64Lt(diff(upper_rate, current_fed_rates.current_range.upper), Lit_0_01)]),
              seen, FALSE)
    ELSE LET rate == Float(item.m)
         IN Outcome(Count(res,
                [type |-> item.rule,
                 article_value |-> << rate >>,
                 current_value |-> << current_fed_rates.effective_rate >>,
                 is_accurate |-> B64Lt(diff(rate, current_fed_rates.effective_rate), Lit_0_05)]),
              seen, FALSE)

(***************************************************************************)
(* _validate_rate_probabilities                                            *)
(***************************************************************************)
\* The rules in the order they are tried: the Fed's, then the Bank of Canada's.
ProbabilityRules ==
    << "fed_prob_hike", "fed_prob_hold", "fed_prob_cut", "fed_prob_cut_25bp",
       "fed_prob_cut_50bp", "boc_prob_hold", "boc_prob_cut" >>

\* The rules that read "probability of a <sub> is <num>%".  A cut named
\* without a size ("Fed rate cut") is read by the three cut rules of the Fed,
\* the size being optional in fed_prob_cut_25bp and fed_prob_cut_50bp.
ProbabilityRulesOf(sub) ==
    CASE sub = "fed_hike" -> {"fed_prob_hike"}
      [] sub = "fed_hold" -> {"fed_prob_hold"}
      [] sub = "fed_cut" -> {"fed_prob_cut", "fed_prob_cut_25bp", "fed_prob_cut_50bp"}
      [] sub = "fed_cut_25bp" -> {"fed_prob_cut_25bp"}
      [] sub = "fed_cut_50bp" -> {"fed_prob_cut_50bp"}
      [] sub = "boc_hold" -> {"boc_prob_hold"}
      [] sub = "boc_cut" -> {"boc_prob_cut"}
      [] OTHER -> {}

ProbabilityRuleMatch(rule, ph) ==
    IF ph.kind = "rate_probability" /\ rule \in ProbabilityRulesOf(ph.sub) /\ IsNumber(ph.num)
    THEN << [rule |-> rule, m |-> ph.num] >>
    ELSE << >>

\* The Bank of Canada's rules are tried if "boc" is in the snapshot.
ProbabilityMatches(text, current_probabilities) ==
    Flatten([i \in 1..7 |->
        IF i > 5 /\ "boc" \notin DOMAIN current_probabilities THEN << >>
        ELSE FindAll(LAMBDA ph : ProbabilityRuleMatch(ProbabilityRules[i], ph), text)])

\* The reference value a rule is compared with.
ProbabilityReference(rule, current_probabilities) ==
    CASE rule = "fed_prob_hike" -> current_probabilities.fed.hike
      [] rule = "fed_prob_hold" -> current_probabilities.fed.hold
      [] rule = "fed_prob_cut" ->
            current_probabilities.fed.cut_25bp + current_probabilities.fed.cut_50bp
      [] rule = "fed_prob_cut_25bp" -> current_probabilities.fed.cut_25bp
      [] rule = "fed_prob_cut_50bp" -> current_probabilities.fed.cut_50bp
      [] rule = "boc_prob_hold" -> current_probabilities.boc.hold
      [] rule = "boc_prob_cut" -> current_probabilities.boc.cut_25bp

\* The body of the loops for one match.
ProbabilityMatch(res, seen, current_probabilities, item) ==
    LET cleaned_match == CleanMatch(item.m)
    IN IF ~CanFloat(cleaned_match) THEN Outcome(res, seen, TRUE)
       ELSE LET prob_value == Float(cleaned_match)
                current_value == ProbabilityReference(item.rule, current_probabilities)
            IN Outcome(Count(res,
                   [type |-> item.rule,
                    article_value |-> prob_value,
                    current_value |-> current_value,
                    is_accurate |-> B64Le(diff(prob_value, current_value), Lit_10_0)]),
                 seen, FALSE)

(***************************************************************************)
(* _validate_dxy_index                                                     *)
(***************************************************************************)
DxyRules == << "dxy_index", "dxy_range" >>

\* \d{2,3}\.?\d*
IsIndexQuote(s) ==
    /\ IsNumber(s)
    /\ DotPos(s) - 1 >= 2
    /\ DotCount(s) = 1 => DotPos(s) - 1 <= 3

\* "DXY at 97.61" is read by dxy_index, "DXY trading between 97.50 and 98.20"
\* by dxy_range.
DxyRuleMatch(rule, ph) ==
    CASE rule = "dxy_index" /\ ph.kind = "dxy_level" /\ IsIndexQuote(ph.num) ->
            << [rule |-> rule, m |-> ph.num, m2 |-> None] >>
      [] rule = "dxy_range" /\ ph.kind = "dxy_range"
            /\ IsIndexQuote(ph.num) /\ IsIndexQuote(ph.num2) ->
            << [rule |-> rule, m |-> ph.num, m2 |-> ph.num2] >>
      [] OTHER -> << >>

DxyMatches(text) ==
    Flatten([i \in 1..2 |-> FindAll(LAMBDA ph : DxyRuleMatch(DxyRules[i], ph), text)])

\* The comparison made on the decimal figures instead of on doubles.
WithinOnePercentDecimal(value, current) == Abs(value - current) * 100 <= Abs(current)

\* abs((value - current) / current * 100) <= 1.0
WithinOnePercent(value, current) == B64Le(diff_pct(value, current), Lit_1_0)

\* The body of the loop for one match.
DxyMatch(res, seen, current_dxy, item) ==
    IF item.rule = "dxy_index"
    THEN LET dxy_value == Float(item.m)
         IN Outcome(Count(res,
                [type |-> "dxy_index",
                 article_value |-> << dxy_value >>,
                 current_value |-> current_dxy.current,
                 is_accurate |-> WithinOnePercent(dxy_value, current_dxy.current)]),
              seen, FALSE)
    ELSE LET dxy_min == Float(item.m)
             dxy_max == Float(item.m2)
         IN Outcome(Count(res,
                [type |-> "dxy_range",
                 article_value |-> << dxy_min, dxy_max >>,
                 current_value |-> current_dxy.current,
                 is_accurate |-> dxy_min <= current_dxy.current /\ current_dxy.current <= dxy_max]),
              seen, FALSE)

(***************************************************************************)
(* _validate_other_central_banks                                           *)
(***************************************************************************)
\* needle in haystack, for strings written as sequences of characters
Contains(haystack, needle) ==
    \E i \in 0..(Len(haystack) - Len(needle)) :
        SubSeq(haystack, i + 1, i + Len(needle)) = needle

\* self.central_banks without the Fed, in the order of the dictionary
central_banks == << "ecb", "boe", "boj", "boc", "rba", "snb", "rbnz" >>

BankRules == << "meeting_date", "meeting_explicit", "current_rate", "expected_decision" >>

DecisionWords == {"hold", "cut", "hike", "raise", "lower", "reduce", "maintain", "keep unchanged"}

\* The decision as it is written, spelled out.
WrittenDecision(word) ==
    CASE word = "cut" -> << "c", "u", "t" >>
      [] word = "lower" -> << "l", "o", "w", "e", "r" >>
      [] word = "reduce" -> << "r", "e", "d", "u", "c", "e" >>
      [] word = "hold" -> << "h", "o", "l", "d" >>
      [] word = "maintain" -> << "m", "a", "i", "n", "t", "a", "i", "n" >>
      [] word = "keep unchanged" ->
            << "k", "e", "e", "p", " ", "u", "n", "c", "h", "a", "n", "g", "e", "d" >>
      [] word = "hike" -> << "h", "i", "k", "e" >>
      [] word = "raise" -> << "r", "a", "i", "s", "e" >>

\* The normalised decision, spelled out.
NormalisedDecision(word) ==
    CASE word \in {"cut", "lower", "reduce"} -> << "c", "u", "t" >>
      [] word \in {"hold", "maintain", "keep unchanged"} -> << "h", "o", "l", "d" >>
      [] word \in {"hike", "raise"} -> << "h", "i", "k", "e" >>

\* "BoC meeting on 17 September" is read by meeting_date as (17, , September)
\* and by meeting_explicit as (on, 17, ); "BoC meeting on September 17" by
\* meeting_explicit; "BoC current interest rate is 2.75%" by current_rate;
\* "BoC is expected to lower its interest rate" by expected_decision.
BankRuleMatch(bank, rule, ph) ==
    IF ph.sub # bank THEN << >>
    ELSE CASE rule = "meeting_date" /\ ph.kind = "bank_meeting" /\ IsDay(ph.num) ->
                << [rule |-> rule, bank |-> bank, groups |-> << ph.num, ph.num2, ph.quote[1] >>] >>
           [] rule = "meeting_explicit" /\ ph.kind = "bank_meeting" /\ IsDay(ph.num) ->
                << [rule |-> rule, bank |-> bank, groups |-> << "on", ph.num, ph.num2 >>] >>
           [] rule = "meeting_explicit" /\ ph.kind = "bank_meeting_month_first" /\ IsDay(ph.num) ->
                << [rule |-> rule, bank |-> bank, groups |-> << ph.quote[1], ph.num, ph.num2 >>] >>
           [] rule = "current_rate" /\ ph.kind = "bank_rate" /\ IsNumber(ph.num) ->
                << [rule |-> rule, bank |-> bank, groups |-> << ph.num >>] >>
           [] rule = "expected_decision" /\ ph.kind = "bank_expected"
                /\ ph.quote[1] \in DecisionWords ->
                << [rule |-> rule, bank |-> bank, groups |-> << ph.quote[1] >>] >>
           [] OTHER -> << >>

UsdCadRules == << "usd_cad_rate", "usd_cad_support", "usd_cad_resistance" >>

\* "USD/CAD at 1.3839", "USD/CAD support at 1.379", "USD/CAD resistance at 1.389"
UsdCadRuleMatch(rule, ph) ==
    IF /\ ph.kind = "usd_cad_quote"
       /\ rule = CASE ph.sub = "support" -> "usd_cad_support"
                   [] ph.sub = "resistance" -> "usd_cad_resistance"
                   [] OTHER -> "usd_cad_rate"
       /\ IsNumber(ph.num)
    THEN << [rule |-> rule, bank |-> "usd_cad", groups |-> << ph.num >>] >>
    ELSE << >>

\* The matches in the order met: bank by bank (those of the snapshot), the two
\* meeting rules then the two rate rules; then the rules about USD/CAD.
CentralBankMatches(text, central_banks_data) ==
    Flatten([b \in 1..Len(central_banks) |->
        IF central_banks[b] \notin DOMAIN central_banks_data THEN << >>
        ELSE Flatten([i \in 1..4 |->
                FindAll(LAMBDA ph : BankRuleMatch(central_banks[b], BankRules[i], ph), text)])])
    \o Flatten([i \in 1..3 |-> FindAll(LAMBDA ph : UsdCadRuleMatch(UsdCadRules[i], ph), text)])

\* abs((value - current) / current * 100) <= 0.5
WithinHalfPercent(value, current) == B64Le(diff_pct(value, current), Lit_0_5)

\* The body of the loops for one match.
CentralBankMatch(res, seen, central_banks_data, item) ==
    LET g == item.groups
    IN CASE item.rule \in {"meeting_date", "meeting_explicit"} ->
              LET month_name == IF item.rule = "meeting_date" THEN g[3] ELSE g[1]
                  day == IntOf(IF item.rule = "meeting_date" THEN g[1] ELSE g[2])
                  month == month_to_number(month_name)
                  year == YearOf(now)
                  actual_date == central_banks_data[item.bank].next_meeting
              IN IF month = NoMonth \/ ~ValidDate(year, month, day)
                 THEN Outcome(res, seen, FALSE)
                 ELSE Outcome(Count(res,
                         [type |-> << item.bank, "meeting_date" >>,
                          article_value |-> << day, month_name >>,
                          current_value |-> actual_date,
                          is_accurate |-> Date(year, month, day) = actual_date]),
                       seen, FALSE)
         [] item.rule = "current_rate" ->
              LET article_rate == Float(g[1])
                  current_rate == central_banks_data[item.bank].current_rate
              IN Outcome(Count(res,
                     [type |-> << item.bank, "current_rate" >>,
                      article_value |-> article_rate,
                      current_value |-> current_rate,
                      is_accurate |-> B64Le(diff(article_rate, current_rate), Lit_0_25)]),
                   seen, FALSE)
         [] item.rule = "expected_decision" ->
              LET article_decision == NormalisedDecision(g[1])
                  expected_decision == central_banks_data[item.bank].expected_decision
              IN Outcome(Count(res,
                     [type |-> << item.bank, "expected_decision" >>,
                      article_value |-> article_decision,
                      current_value |-> expected_decision,
                      is_accurate |-> Contains(expected_decision, article_decision)]),
                   seen, FALSE)
         [] OTHER ->
              LET cleaned_match == CleanMatch(g[1])
                  usd_cad_data == reference_data.usd_cad
              IN IF ~CanFloat(cleaned_match) THEN Outcome(res, seen, TRUE)
                 ELSE LET rate_value == Float(cleaned_match)
                          current_value ==
                              CASE item.rule = "usd_cad_rate" -> usd_cad_data.current
                                [] item.rule = "usd_cad_support" -> usd_cad_data.support
                                [] item.rule = "usd_cad_resistance" -> usd_cad_data.resistance
                      IN Outcome(Count(res,
                             [type |-> << item.rule >>,
                              article_value |-> rate_value,
                              current_value |-> current_value,
                              is_accurate |->
                                  IF item.rule = "usd_cad_rate"
                                  THEN WithinOnePercent(rate_value, current_value)
                                  ELSE WithinHalfPercent(rate_value, current_value)]),
                           seen, FALSE)

(***************************************************************************)
(* _validate_expert_citations                                              *)
(*                                                                         *)
(* A quotation is the sequence of its words, in lower case (the comparison *)
(* lower-cases both sides and splits them at white space).                 *)
(***************************************************************************)
\* self.known_experts, in the order of the dictionary
known_experts ==
 << [name |-> "adam button", organization |-> "ForexLive",
     recent_quotes |-> <<
          << "the", "fed", "faces", "its", "most", "complex", "policy", "environment",
             "since", "2020,", "balancing", "persistent", "inflation", "against",
             "emerging", "growth", "concerns." >>,
          << "markets", "are", "pricing", "in", "a", "80%", "probability", "of", "a",
             "25bp", "cut", "in", "september,", "reflecting", "a", "clear", "shift",
             "in", "fed", "expectations." >>,
          << "eur/usd", "positioning", "suggests", "limited", "downside", "on",
             "hawkish", "surprise", "but", "significant", "upside", "potential", "on",
             "dovish", "outcome." >> >>],
    [name |-> "kathleen brooks", organization |-> "Minerva Analysis",
     recent_quotes |-> <<
          << "the", "bank", "of", "canada", "is", "likely", "to", "lead", "the",
             "major", "central", "banks", "in", "the", "easing", "cycle,", "with",
             "implications", "for", "cad", "crosses." >>,
          << "technical", "indicators", "for", "usd/jpy", "suggest", "intervention",
             "risk", "increases", "substantially", "above", "the", "149.00", "level." >>,
          << "traders", "should", "watch", "for", "break", "of", "1.1680-1.1750",
             "range", "in", "eur/usd", "for", "directional", "clarity", "following",
             "the", "fomc." >> >>],
    [name |-> "kathy lien", organization |-> "BK Asset Management",
     recent_quotes |-> <<
          << "the", "convergence", "of", "multiple", "central", "bank", "decisions",
             "creates", "a", "perfect", "storm", "for", "currency", "volatility." >>,
          << "historical", "patterns", "show", "post-fomc", "reversals", "within",
             "24-48", "hours", "are", "common", "in", "major", "currency", "pairs." >>,
          << "usd/jpy", "remains", "the", "most", "sensitive", "pair", "to",
             "fed-japan", "yield", "differentials,", "with", "a", "90%", "correlation",
             "to", "10-year", "treasury", "yields." >> >>],
    [name |-> "marc chandler", organization |-> "Bannockburn Global Forex",
     recent_quotes |-> <<
          << "the", "september", "fomc", "meeting", "arrives", "amid", "conflicting",
             "economic", "signals", "that", "will", "test", "the", "fed's",
             "communication", "strategy." >>,
          << "current", "market", "conditions", "favor", "usd", "strength", "on",
             "hawkish", "hold", "scenario,", "but", "traders", "must", "remain",
             "agile", "for", "surprise", "outcomes." >>,
          << "the", "dot", "plot", "revisions", "will", "likely", "have", "more",
             "impact", "on", "currency", "markets", "than", "the", "immediate", "rate",
             "decision." >> >>],
    [name |-> "john hardy", organization |-> "Saxo Bank",
     recent_quotes |-> <<
          << "inflation", "language", "changes", "move", "usd", "3x", "more", "than",
             "rate", "decisions", "alone", "in", "fomc", "communications." >>,
          << "the", "carry", "trade", "unwinding", "risk", "increases", "substantially",
             "with", "any", "dovish", "pivot", "from", "the", "fed." >>,
          << "gbp/usd", "faces", "double", "volatility", "risk", "with", "both", "fomc",
             "and", "bank", "of", "england", "policy", "influences." >> >>],
    [name |-> "erik nelson", organization |-> "Wells Fargo",
     recent_quotes |-> <<
          << "usd/cad", "typically", "shows", "inverse", "correlation", "to", "broader",
             "usd", "moves", "post-fomc", "decisions." >>,
          << "the", "august", "inflation", "reading", "of", "2.9%", "remains", "above",
             "the", "fed's", "2%", "target,", "creating", "policy", "tension." >>,
          << "market", "positioning", "suggests", "institutional", "traders", "are",
             "reducing", "exposure", "ahead", "of", "the", "fomc", "event." >> >>],
    [name |-> "jane foley", organization |-> "Rabobank",
     recent_quotes |-> <<
          << "eur/usd", "typically", "shows", "the", "strongest", "reaction", "among",
             "major", "pairs", "to", "fomc", "decisions." >>,
          << "the", "rise", "in", "unemployment", "to", "4.3%", "suggests", "growing",
             "economic", "headwinds", "that", "the", "fed", "cannot", "ignore." >>,
          << "correlation", "trading", "strategies", "become", "particularly",
             "effective", "during", "periods", "of", "central", "bank", "volatility." >> >>],
    [name |-> "kit juckes", organization |-> "Societe Generale",
     recent_quotes |-> <<
          << "the", "interest", "rate", "differential", "trade", "remains",
             "particularly", "sensitive", "to", "fomc", "guidance", "and", "dot",
             "plot", "projections." >>,
          << "current", "yield", "spreads", "favor", "usd", "strength,", "but", "any",
             "dovish", "pivot", "could", "trigger", "rapid", "unwinding", "of", "carry",
             "positions." >>,
          << "aud/jpy", "serves", "as", "risk", "sentiment", "proxy", "during",
             "central", "bank", "volatility", "periods." >> >>] >>

\* The characters of the words in which a figure is written; any other word
\* counts as one character of its own.
Spell(w) ==
    CASE w = "80%" -> << "8", "0", "%" >>
      [] w = "25bp" -> << "2", "5", "b", "p" >>
      [] w = "2.9%" -> << "2", ".", "9", "%" >>
      [] w = "1.17" -> << "1", ".", "1", "7" >>
      [] w = "1.25" -> << "1", ".", "2", "5" >>
      [] OTHER -> << w >>

\* The text of a quotation: its words joined by blanks.
RECURSIVE TextOf(_)
TextOf(words) ==
    IF words = << >> THEN << >>
    ELSE IF Len(words) = 1 THEN Spell(words[1])
    ELSE Spell(words[1]) \o << " " >> \o TextOf(Tail(words))

DigitChar(d) ==
    CASE d = 0 -> "0" [] d = 1 -> "1" [] d = 2 -> "2" [] d = 3 -> "3" [] d = 4 -> "4"
      [] d = 5 -> "5" [] d = 6 -> "6" [] d = 7 -> "7" [] d = 8 -> "8" [] d = 9 -> "9"

RECURSIVE NatChars(_)
NatChars(n) ==
    IF n < 10 THEN << DigitChar(n) >> ELSE NatChars(n \div 10) \o << DigitChar(n % 10) >>

RECURSIVE StripZeros(_)
StripZeros(s) ==
    IF Len(s) > 1 /\ s[Len(s)] = "0" THEN StripZeros(SubSeq(s, 1, Len(s) - 1)) ELSE s

\* str(x) of a float x given in units of 10^-k: "1.17", "150.5", "1.0"
Repr(v, k) ==
    NatChars(v \div Pow10(k)) \o << "." >>
    \o StripZeros([i \in 1..k |-> DigitChar((v \div Pow10(k - i)) % 10)])

\* str(round(rate, 2))
RateStr(rate) == Repr(RoundHalfEven(rate, Unit \div 100), 2)

\* f"{rate:.1f}"
RateOneDecimal(rate) ==
    LET n == RoundHalfEven(rate, Unit \div 10)
    IN NatChars(n \div 10) \o << ".", DigitChar(n % 10) >>

\* The two loops that look for a current figure in the quotation.
ContainsCurrentData(citation, rates, inflation) ==
    \/ \E pair \in DOMAIN rates :
          \/ Contains(TextOf(citation), RateStr(rates[pair]))
          \/ Contains(TextOf(citation), RateOneDecimal(rates[pair]))
    \/ \E metric \in DOMAIN inflation :
          \/ Contains(TextOf(citation), Repr(inflation[metric], Scale) \o << "%" >>)
          \/ Contains(TextOf(citation), Repr(inflation[metric], Scale) \o << " ", "%" >>)

WordSet(words) == {words[i] : i \in 1..Len(words)}

\* The score with the sizes of the two sets added up for the union.
JaccardOfSum(citation, known_quote) ==
    [common |-> Cardinality(WordSet(citation) \cap WordSet(known_quote)),
     union |-> Cardinality(WordSet(citation)) + Cardinality(WordSet(known_quote))]

\* len(common_words) and len(citation_words.union(known_words))
Jaccard(citation, known_quote) ==
    [common |-> Cardinality(WordSet(citation) \cap WordSet(known_quote)),
     union |-> Cardinality(WordSet(citation) \cup WordSet(known_quote))]

\* The loop over recent_quotes: the best score so far and the quote that has
\* it (0: none); a later quote replaces it only with a greater score.
RECURSIVE MostSimilar(_, _, _, _)
MostSimilar(citation, quotes, i, best) ==
    IF i > Len(quotes) THEN best
    ELSE LET j == Jaccard(citation, quotes[i])
         IN IF /\ WordSet(citation) # {} /\ WordSet(quotes[i]) # {}
               /\ j.common * best.union > best.common * j.union
            THEN MostSimilar(citation, quotes, i + 1,
                             [common |-> j.common, union |-> j.union, quote |-> i])
            ELSE MostSimilar(citation, quotes, i + 1, best)

\* A test that finds no expert counted yet.
NeverCounted(res, name) == TRUE

\* expert_name.lower() not in [detail["expert"].lower() for detail in results["details"]]
NotYetCounted(res, name) ==
    \A i \in 1..Len(res.details) : Lower(res.details[i].expert) # Lower(name)

excluded_terms ==
    {"fed", "federal reserve", "ecb", "boe", "bank of england", "bank of canada",
     "boc", "bank of japan", "boj", "fomc"}

IsKnownExpert(name) == \E e \in 1..Len(known_experts) : known_experts[e].name = Lower(name)

\* The registry rule of an expert reads "<name> said "..."" whatever the case
\* of the name; the mention rule reads the bare name wherever it is written.
ExpertCitationMatch(e, ph) ==
    IF ph.kind = "said" /\ Lower(ph.sub) = known_experts[e].name
    THEN << [rule |-> "citation", expert |-> e, name |-> known_experts[e].name,
             organization |-> known_experts[e].organization, quote |-> ph.quote] >>
    ELSE << >>

ExpertMentionMatch(e, ph) ==
    IF ph.kind \in {"said", "named"} /\ Lower(ph.sub) = known_experts[e].name
    THEN << [rule |-> "mention", expert |-> e, name |-> known_experts[e].name,
             organization |-> known_experts[e].organization, quote |-> << >>] >>
    ELSE << >>

\* What ([A-Z][a-z]+(?:\s+[A-Z][a-z]+)?)(?:\s+(?:of|from|at)\s+([A-Z][a-zA-Z\s]+))?
\* captures of the words before "said": one or two capitalised words as the
\* name, and the words after "of" as the organization.  Of "Bank of England"
\* it takes "Bank" for the name and "England" for the organization; a word
\* all in capitals, as "ECB", is no name.
GenericNames(subject) ==
    CASE subject = "ECB" -> << >>
      [] subject = "Bank of England" -> << [name |-> "Bank", organization |-> "England"] >>
      [] OTHER -> << [name |-> subject, organization |-> "Unknown"] >>

\* The generic rule reads "<Name> said "..."" for any capitalised name.
GenericCitationMatch(ph) ==
    IF ph.kind = "said" /\ GenericNames(ph.sub) # << >>
    THEN << [rule |-> "generic", expert |-> 0, name |-> GenericNames(ph.sub)[1].name,
             organization |-> GenericNames(ph.sub)[1].organization, quote |-> ph.quote] >>
    ELSE << >>

\* The matches with the mention of an expert looked at before the expert's
\* citations.
ExpertMatchesMentionFirst(text) ==
    Flatten([e \in 1..Len(known_experts) |->
        LET mentions == FindAll(LAMBDA ph : ExpertMentionMatch(e, ph), text)
        IN (IF mentions = << >> THEN << >> ELSE << Head(mentions) >>)
           \o FindAll(LAMBDA ph : ExpertCitationMatch(e, ph), text)])
    \o FindAll(GenericCitationMatch, text)

\* The mentions of an expert are looked at once, after the expert's citations.
ExpertMatches(text) ==
    Flatten([e \in 1..Len(known_experts) |->
        LET mentions == FindAll(LAMBDA ph : ExpertMentionMatch(e, ph), text)
        IN FindAll(LAMBDA ph : ExpertCitationMatch(e, ph), text)
           \o (IF mentions = << >> THEN << >> ELSE << Head(mentions) >>)])
    \o FindAll(GenericCitationMatch, text)

\* What processing one match of this validator leaves: the report, the store
\* and the resolves it made.
ExpertOutcome(res, st, events) == [res |-> res, store |-> st, events |-> events]

\* The forex and the inflation snapshot are resolved, in this order, when a
\* quotation is searched for a current figure.
ExpertMatch(res, st, outcome, item) ==
    LET citation == item.quote
        rf == get_current_forex_rates(st, outcome)
        ri == get_current_inflation_data(rf.store)
        contains_current_data == ContainsCurrentData(citation, rf.payload, ri.payload)
    IN CASE item.rule = "citation" ->
              IF citation = << >> THEN ExpertOutcome(res, st, << >>)
              ELSE LET best == MostSimilar(citation, known_experts[item.expert].recent_quotes, 1,
                                           [common |-> 0, union |-> 1, quote |-> 0])
                       detail(ok) ==
                           [type |-> "expert_citation",
                            expert |-> item.name,
                            organization |-> item.organization,
                            citation |-> citation,
                            similarity_score |-> RoundHalfEven(100 * best.common, best.union),
                            most_similar_known_quote |-> best.quote,
                            is_accurate |-> ok]
                   IN IF 2 * best.common > best.union
                      THEN ExpertOutcome(Count(res, detail(TRUE)), st, << >>)
                      ELSE ExpertOutcome(Count(res, detail(contains_current_data)),
                                         ri.store, << rf.event, ri.event >>)
         [] item.rule = "mention" ->
              IF NotYetCounted(res, item.name)
              THEN ExpertOutcome(Count(res, [type |-> "expert_mention",
                                             expert |-> item.name,
                                             organization |-> item.organization,
                                             is_accurate |-> TRUE]),
                                 st, << >>)
              ELSE ExpertOutcome(res, st, << >>)
         [] item.rule = "generic" ->
              IF /\ citation # << >>
                 /\ ~IsKnownExpert(item.name)
                 /\ Lower(item.name) \notin excluded_terms
                 /\ NotYetCounted(res, item.name)
              THEN ExpertOutcome(Count(res, [type |-> "unknown_expert_citation",
                                             expert |-> item.name,
                                             organization |-> item.organization,
                                             citation |-> citation,
                                             contains_current_data |-> contains_current_data,
                                             is_accurate |-> contains_current_data]),
                                 ri.store, << rf.event, ri.event >>)
              ELSE ExpertOutcome(res, st, << >>)

(***************************************************************************)
(* The calls of the other validators and the turns of their loops.         *)
(***************************************************************************)
InflationData ==
    LET r == get_current_inflation_data(Store)
    IN Enter("inflation_data", "forex_rates", r, InflationMatches(article))

InflationDataMatch ==
    /\ pc = "inflation_data"
    /\ work # << >>
    /\ Loop("inflation_data",
            InflationMatch(results["inflation_data"], processed_values, snapshot, Head(work)))
    /\ served' = << >>
    /\ UNCHANGED << cached_data, cache_timestamp, all_hits >>

UnemploymentData ==
    LET r == get_current_unemployment_data(Store)
    IN Enter("unemployment_data", "inflation_data", r, UnemploymentMatches(article))

UnemploymentDataMatch ==
    /\ pc = "unemployment_data"
    /\ work # << >>
    /\ Loop("unemployment_data",
            UnemploymentMatch(results["unemployment_data"], processed_values, snapshot, Head(work)))
    /\ served' = << >>
    /\ UNCHANGED << cached_data, cache_timestamp, all_hits >>

TreasuryYields ==
    LET r == get_current_treasury_yields(Store)
    IN Enter("treasury_yields", "unemployment_data", r, TreasuryMatches(article))

TreasuryYieldsMatch ==
    /\ pc = "treasury_yields"
    /\ work # << >>
    /\ Loop("treasury_yields",
            TreasuryMatch(results["treasury_yields"], processed_values, snapshot, Head(work)))
    /\ served' = << >>
    /\ UNCHANGED << cached_data, cache_timestamp, all_hits >>

FedMeetings ==
    LET r == get_current_fed_meetings(Store)
    IN Enter("fed_meetings", "treasury_yields", r, FedMeetingMatches(article))

FedMeetingsMatch ==
    /\ pc = "fed_meetings"
    /\ work # << >>
    /\ Loop("fed_meetings",
            FedMeetingMatch(results["fed_meetings"], processed_values, snapshot, Head(work)))
    /\ served' = << >>
    /\ UNCHANGED << cached_data, cache_timestamp, all_hits >>

FedRates ==
    LET r == get_current_fed_rates(Store)
    IN Enter("fed_rates", "fed_meetings", r, FedRateMatches(article))

FedRatesMatch ==
    /\ pc = "fed_rates"
    /\ work # << >>
    /\ Loop("fed_rates",
            FedRateMatch(results["fed_rates"], processed_values, snapshot, Head(work)))
    /\ served' = << >>
    /\ UNCHANGED << cached_data, cache_timestamp, all_hits >>

RateProbabilities ==
    LET r == get_current_rate_probabilities(Store)
    IN Enter("rate_probabilities", "fed_rates", r, ProbabilityMatches(article, r.payload))

RateProbabilitiesMatch ==
    /\ pc = "rate_probabilities"
    /\ work # << >>
    /\ Loop("rate_probabilities",
            ProbabilityMatch(results["rate_probabilities"], processed_values, snapshot, Head(work)))
    /\ served' = << >>
    /\ UNCHANGED << cached_data, cache_timestamp, all_hits >>

DxyIndex ==
    LET r == get_current_dxy_index(Store)
    IN Enter("dxy_index", "rate_probabilities", r, DxyMatches(article))

DxyIndexMatch ==
    /\ pc = "dxy_index"
    /\ work # << >>
    /\ Loop("dxy_index",
            DxyMatch(results["dxy_index"], processed_values, snapshot, Head(work)))
    /\ served' = << >>
    /\ UNCHANGED << cached_data, cache_timestamp, all_hits >>

OtherCentralBanks ==
    LET r == get_other_central_banks_data(Store)
    IN Enter("other_central_banks", "dxy_index", r, CentralBankMatches(article, r.payload))

OtherCentralBanksMatch ==
    /\ pc = "other_central_banks"
    /\ work # << >>
    /\ Loop("other_central_banks",
            CentralBankMatch(results["other_central_banks"], processed_values, snapshot, Head(work)))
    /\ served' = << >>
    /\ UNCHANGED << cached_data, cache_timestamp, all_hits >>

\* _validate_expert_citations resolves nothing when it is called.
ExpertCitations ==
    /\ pc = "other_central_banks"
    /\ work = << >>
    /\ pc' = "expert_citations"
    /\ work' = ExpertMatches(article)
    /\ results' = Put(results, "expert_citations", EmptyReport)
    /\ called' = Append(called, "expert_citations")
    /\ served' = << >>
    /\ snapshot' = << >>
    /\ processed_values' = {}
    /\ UNCHANGED << now, cached_data, cache_timestamp, article, all_hits, history,
                    passes, ticks, ops, source, running, in_flight >>

ExpertCitationsMatch ==
    /\ pc = "expert_citations"
    /\ work # << >>
    /\ \E outcome \in source :
         LET out == ExpertMatch(results["expert_citations"], Store, outcome, Head(work))
         IN /\ results' = [results EXCEPT !["expert_citations"] = out.res]
            /\ cached_data' = out.store.data
            /\ cache_timestamp' = out.store.stamp
            /\ served' = out.events
            /\ all_hits' = (all_hits /\ \A i \in 1..Len(out.events) : out.events[i].origin = "cache")
    /\ work' = Tail(work)
    /\ UNCHANGED << now, article, pc, processed_values, snapshot, called, history,
                    passes, ticks, ops, source, running, in_flight >>

(***************************************************************************)
(* The aggregation and the return of validate_article_data.                *)
(***************************************************************************)
\* total_metrics and accurate_metrics: the loop over the ten categories,
\* which adds a category if it found something.
TotalMetrics(r) ==
    SumSeq([i \in 1..Len(categories) |->
        IF r[categories[i]].metrics_found > 0 THEN r[categories[i]].metrics_found ELSE 0])

AccurateMetrics(r) ==
    SumSeq([i \in 1..Len(categories) |->
        IF r[categories[i]].metrics_found > 0 THEN r[categories[i]].metrics_accurate ELSE 0])

\* The accuracy cut to a tenth instead of rounded.
OverallAccuracyCut(r) ==
    IF TotalMetrics(r) > 0
    THEN (AccurateMetrics(r) * 1000) \div TotalMetrics(r)
    ELSE 0

\* round(accurate_metrics / total_metrics * 100, 1), in tenths of a percent;
\* 0.0 is kept when nothing was found.
OverallAccuracy(r) ==
    IF TotalMetrics(r) > 0
    THEN RoundHalfEven(AccurateMetrics(r) * 1000, TotalMetrics(r))
    ELSE 0

\* The report: the ten category reports, the time stamp and the accuracy.
Report(r, t) ==
    [categories |-> r, validation_timestamp |-> t, overall_accuracy |-> OverallAccuracy(r)]

Return ==
    /\ pc = "expert_citations"
    /\ work = << >>
    /\ pc' = "returned"
    /\ history' = Append(history, [report |-> Report(results, now), text |-> article,
                                   all_hits |-> all_hits, year |-> YearOf(now),
                                   data |-> cached_data, stamps |-> cache_timestamp])
    /\ served' = << >>
    /\ UNCHANGED << now, cached_data, cache_timestamp, article, work, processed_values,
                    snapshot, results, called, all_hits, passes, ticks, ops, source, running, in_flight >>

(***************************************************************************)
(* One validation of one article by a validator just constructed.          *)
(***************************************************************************)
Construct ==
    /\ cached_data = << >>
    /\ cache_timestamp = << >>
    /\ served = << >>
    /\ pc = "idle"
    /\ work = << >>
    /\ processed_values = {}
    /\ snapshot = << >>
    /\ results = << >>
    /\ called = << >>
    /\ all_hits = TRUE
    /\ history = << >>
    /\ passes = 0
    /\ ticks = 0
    /\ ops = 0
    /\ running = << >>

Init ==
    /\ Construct
    /\ in_flight = << >>
    /\ source = FetchOutcomes
    /\ now \in StartTimes
    /\ article \in Articles

Validate ==
    \/ ValidateArticleData
    \/ ForexRatesMatch
    \/ InflationData
    \/ InflationDataMatch
    \/ UnemploymentData
    \/ UnemploymentDataMatch
    \/ TreasuryYields
    \/ TreasuryYieldsMatch
    \/ FedMeetings
    \/ FedMeetingsMatch
    \/ FedRates
    \/ FedRatesMatch
    \/ RateProbabilities
    \/ RateProbabilitiesMatch
    \/ DxyIndex
    \/ DxyIndexMatch
    \/ OtherCentralBanks
    \/ OtherCentralBanksMatch
    \/ ExpertCitations
    \/ ExpertCitationsMatch
    \/ Return

Next == Validate

Spec == Init /\ [][Next]_vars

(***************************************************************************)
(* The resolvers called one by one while the clock advances.               *)
(***************************************************************************)
Resolved(r) ==
    /\ pc = "idle"
    /\ ops < MaxOps
    /\ ops' = ops + 1
    /\ cached_data' = r.store.data
    /\ cache_timestamp' = r.store.stamp
    /\ served' = << r.event >>
    /\ UNCHANGED << now, article, pc, work, processed_values, snapshot, results,
                    called, all_hits, history, passes, ticks, source, running, in_flight >>

GetCurrentForexRates ==
    \E outcome \in source : Resolved(get_current_forex_rates(Store, outcome))

GetCurrentInflationData == Resolved(get_current_inflation_data(Store))

GetCurrentUnemploymentData == Resolved(get_current_unemployment_data(Store))

GetCurrentTreasuryYields == Resolved(get_current_treasury_yields(Store))

GetCurrentFedMeetings == Resolved(get_current_fed_meetings(Store))

GetCurrentFedRates == Resolved(get_current_fed_rates(Store))

GetCurrentRateProbabilities == Resolved(get_current_rate_probabilities(Store))

GetCurrentDxyIndex == Resolved(get_current_dxy_index(Store))

GetOtherCentralBanksData == Resolved(get_other_central_banks_data(Store))

\* Time passes between two calls.
Tick ==
    /\ pc = "idle"
    /\ ops < MaxOps
    /\ ops' = ops + 1
    /\ \E h \in TickHours : now' = now + h
    /\ served' = << >>
    /\ UNCHANGED << cached_data, cache_timestamp, article, pc, work, processed_values,
                    snapshot, results, called, all_hits, history, passes, ticks,
                    source, running, in_flight >>

InitCache ==
    /\ Construct
    /\ in_flight = << >>
    /\ source = FetchOutcomes
    /\ now \in StartTimes
    /\ article = << >>

NextCache ==
    \/ GetCurrentForexRates
    \/ GetCurrentInflationData
    \/ GetCurrentUnemploymentData
    \/ GetCurrentTreasuryYields
    \/ GetCurrentFedMeetings
    \/ GetCurrentFedRates
    \/ GetCurrentRateProbabilities
    \/ GetCurrentDxyIndex
    \/ GetOtherCentralBanksData
    \/ Tick

SpecCache == InitCache /\ [][NextCache]_vars

(***************************************************************************)
(* The same article validated again and again by one validator.            *)
(***************************************************************************)
RepeatArticles ==
    { << FomcSingleDay, FomcMonthFirst, FomcAfter, BocMeeting, BocMeetingMonthFirst,
         EcbMeetingEarly >>,
      << EurAtReference, HeadlineInflation >>,
      << UnemploymentRate, TenYearYield >>,
      << FomcMeeting, EffectiveRate >>,
      << CutProbability, DxyLevel >>,
      << BocExpected, SmithSaid >> }

\* validate_article_data has returned or raised; it is called again with the
\* same text.
Revalidate ==
    /\ pc \in {"returned", "raised"}
    /\ passes < MaxPasses
    /\ pc' = "idle"
    /\ served' = << >>
    /\ UNCHANGED << now, cached_data, cache_timestamp, article, work, processed_values,
                    snapshot, results, called, all_hits, history, passes, ticks, ops, source, running, in_flight >>

\* Time passes between two validations.
TickBetweenCalls ==
    /\ pc \in {"returned", "raised"}
    /\ ticks < MaxTicks
    /\ ticks' = ticks + 1
    /\ \E h \in TickHours : now' = now + h
    /\ served' = << >>
    /\ UNCHANGED << cached_data, cache_timestamp, article, pc, work, processed_values,
                    snapshot, results, called, all_hits, history, passes, ops, source, running, in_flight >>

InitRepeat ==
    /\ Construct
    /\ in_flight = << >>
    /\ source = FetchOutcomes
    /\ now \in StartTimes
    /\ article \in RepeatArticles

NextRepeat ==
    \/ Validate
    \/ Revalidate
    \/ TickBetweenCalls

SpecRepeat == InitRepeat /\ [][NextRepeat]_vars

(***************************************************************************)
(* The ten validators called in any order on one validator object, the     *)
(* turns of their loops interleaved, against a source that answers every   *)
(* request the same way.  Each call has its own results, processed_values  *)
(* and snapshot, as the local variables of a method have; the cache is     *)
(* the object's.  The order of the calls is not recorded: the validators   *)
(* called so far are the keys of results, and where a snapshot came from   *)
(* is kept with the call instead of in served.                             *)
(***************************************************************************)
\* The resolver a validator calls when it is entered.
ResolverOf(cat, st, outcome) ==
    CASE cat = "forex_rates" -> get_current_forex_rates(st, outcome)
      [] cat = "inflation_data" -> get_current_inflation_data(st)
      [] cat = "unemployment_data" -> get_current_unemployment_data(st)
      [] cat = "treasury_yields" -> get_current_treasury_yields(st)
      [] cat = "fed_meetings" -> get_current_fed_meetings(st)
      [] cat = "fed_rates" -> get_current_fed_rates(st)
      [] cat = "rate_probabilities" -> get_current_rate_probabilities(st)
      [] cat = "dxy_index" -> get_current_dxy_index(st)
      [] cat = "other_central_banks" -> get_other_central_banks_data(st)

\* The matches a validator collects in the text.
MatchesOf(cat, text, payload) ==
    CASE cat = "forex_rates" -> ForexMatches(text)
      [] cat = "inflation_data" -> InflationMatches(text)
      [] cat = "unemployment_data" -> UnemploymentMatches(text)
      [] cat = "treasury_yields" -> TreasuryMatches(text)
      [] cat = "fed_meetings" -> FedMeetingMatches(text)
      [] cat = "fed_rates" -> FedRateMatches(text)
      [] cat = "rate_probabilities" -> ProbabilityMatches(text, payload)
      [] cat = "dxy_index" -> DxyMatches(text)
      [] cat = "other_central_banks" -> CentralBankMatches(text, payload)

\* The body of a validator's loop for one match.
MatchOf(cat, res, seen, payload, item) ==
    CASE cat = "forex_rates" -> ForexMatch(res, seen, payload, item)
      [] cat = "inflation_data" -> InflationMatch(res, seen, payload, item)
      [] cat = "unemployment_data" -> UnemploymentMatch(res, seen, payload, item)
      [] cat = "treasury_yields" -> TreasuryMatch(res, seen, payload, item)
      [] cat = "fed_meetings" -> FedMeetingMatch(res, seen, payload, item)
      [] cat = "fed_rates" -> FedRateMatch(res, seen, payload, item)
      [] cat = "rate_probabilities" -> ProbabilityMatch(res, seen, payload, item)
      [] cat = "dxy_index" -> DxyMatch(res, seen, payload, item)
      [] cat = "other_central_banks" -> CentralBankMatch(res, seen, payload, item)

Frame(items, seen, payload, origin) ==
    [work |-> items, processed_values |-> seen, snapshot |-> payload, origin |-> origin]

\* _validate_<category> is called if it has not been called yet.
ValidatorInAnyOrder ==
    \E cat \in CategorySet \ {"expert_citations"} :
        /\ pc = "idle"
        /\ cat \notin DOMAIN results
        /\ \E outcome \in source :
             LET r == ResolverOf(cat, Store, outcome)
             IN /\ cached_data' = r.store.data
                /\ cache_timestamp' = r.store.stamp
                /\ served' = << >>
                /\ all_hits' = (all_hits /\ r.event.origin = "cache")
                /\ running' = Put(running, cat,
                                  Frame(MatchesOf(cat, article, r.payload), {}, r.payload,
                                        r.event.origin))
        /\ results' = Put(results, cat, EmptyReport)
        /\ UNCHANGED << now, article, pc, work, processed_values, snapshot, called,
                        history, passes, ticks, ops, source, in_flight >>

\* _validate_expert_citations resolves nothing when it is called.
ExpertCitationsInAnyOrder ==
    /\ pc = "idle"
    /\ "expert_citations" \notin DOMAIN results
    /\ running' = Put(running, "expert_citations",
                      Frame(ExpertMatches(article), {}, << >>, "none"))
    /\ results' = Put(results, "expert_citations", EmptyReport)
    /\ served' = << >>
    /\ UNCHANGED << now, cached_data, cache_timestamp, article, pc, work, processed_values,
                    snapshot, called, all_hits, history, passes, ticks, ops, source,
                    in_flight >>

\* One turn of the loop of a validator that has been called and has matches
\* left; an exception ends the run.
InLoop(cat) ==
    /\ pc = "idle"
    /\ cat \in DOMAIN running
    /\ running[cat].work # << >>

LoopInAnyOrder(cat, out) ==
    /\ results' = [results EXCEPT ![cat] = out.res]
    /\ running' = [running EXCEPT ![cat].processed_values = out.seen, ![cat].work = Tail(@)]
    /\ pc' = IF out.raised THEN "raised" ELSE pc
    /\ served' = << >>
    /\ UNCHANGED << now, cached_data, cache_timestamp, article, work, processed_values,
                    snapshot, called, all_hits, history, passes, ticks, ops, source,
                    in_flight >>

ForexRatesMatchInAnyOrder ==
    /\ InLoop("forex_rates")
    /\ LET f == running["forex_rates"]
       IN LoopInAnyOrder("forex_rates",
              ForexMatch(results["forex_rates"], f.processed_values, f.snapshot, Head(f.work)))

InflationDataMatchInAnyOrder ==
    /\ InLoop("inflation_data")
    /\ LET f == running["inflation_data"]
       IN LoopInAnyOrder("inflation_data",
              InflationMatch(results["inflation_data"], f.processed_values, f.snapshot, Head(f.work)))

UnemploymentDataMatchInAnyOrder ==
    /\ InLoop("unemployment_data")
    /\ LET f == running["unemployment_data"]
       IN LoopInAnyOrder("unemployment_data",
              UnemploymentMatch(results["unemployment_data"], f.processed_values, f.snapshot, Head(f.work)))

TreasuryYieldsMatchInAnyOrder ==
    /\ InLoop("treasury_yields")
    /\ LET f == running["treasury_yields"]
       IN LoopInAnyOrder("treasury_yields",
              TreasuryMatch(results["treasury_yields"], f.processed_values, f.snapshot, Head(f.work)))

FedMeetingsMatchInAnyOrder ==
    /\ InLoop("fed_meetings")
    /\ LET f == running["fed_meetings"]
       IN LoopInAnyOrder("fed_meetings",
              FedMeetingMatch(results["fed_meetings"], f.processed_values, f.snapshot, Head(f.work)))

FedRatesMatchInAnyOrder ==
    /\ InLoop("fed_rates")
    /\ LET f == running["fed_rates"]
       IN LoopInAnyOrder("fed_rates",
              FedRateMatch(results["fed_rates"], f.processed_values, f.snapshot, Head(f.work)))

RateProbabilitiesMatchInAnyOrder ==
    /\ InLoop("rate_probabilities")
    /\ LET f == running["rate_probabilities"]
       IN LoopInAnyOrder("rate_probabilities",
              ProbabilityMatch(results["rate_probabilities"], f.processed_values, f.snapshot, Head(f.work)))

DxyIndexMatchInAnyOrder ==
    /\ InLoop("dxy_index")
    /\ LET f == running["dxy_index"]
       IN LoopInAnyOrder("dxy_index",
              DxyMatch(results["dxy_index"], f.processed_values, f.snapshot, Head(f.work)))

OtherCentralBanksMatchInAnyOrder ==
    /\ InLoop("other_central_banks")
    /\ LET f == running["other_central_banks"]
       IN LoopInAnyOrder("other_central_banks",
              CentralBankMatch(results["other_central_banks"], f.processed_values, f.snapshot, Head(f.work)))

ExpertCitationsMatchInAnyOrder ==
    /\ pc = "idle"
    /\ "expert_citations" \in DOMAIN running
    /\ running["expert_citations"].work # << >>
    /\ \E outcome \in source :
         LET out == ExpertMatch(results["expert_citations"], Store, outcome,
                                Head(running["expert_citations"].work))
         IN /\ results' = [results EXCEPT !["expert_citations"] = out.res]
            /\ cached_data' = out.store.data
            /\ cache_timestamp' = out.store.stamp
            /\ served' = << >>
            /\ all_hits' = (all_hits /\ \A i \in 1..Len(out.events) : out.events[i].origin = "cache")
    /\ running' = [running EXCEPT !["expert_citations"].work = Tail(@)]
    /\ UNCHANGED << now, article, pc, work, processed_values, snapshot, called, history,
                    passes, ticks, ops, source, in_flight >>

\* The ten reports are put together once every validator has returned.
ReturnInAnyOrder ==
    /\ pc = "idle"
    /\ DOMAIN results = CategorySet
    /\ \A cat \in CategorySet : running[cat].work = << >>
    /\ pc' = "returned"
    /\ history' = Append(history, [report |-> Report(results, now), text |-> article,
                                   all_hits |-> all_hits, year |-> YearOf(now),
                                   data |-> cached_data, stamps |-> cache_timestamp])
    /\ served' = << >>
    /\ UNCHANGED << now, cached_data, cache_timestamp, article, work, processed_values,
                    snapshot, results, called, all_hits, passes, ticks, ops, source,
                    running, in_flight >>

\* The source answers every request of a run the same way: it always
\* answers with rates, or it never answers.
ConstantSources == {{"ok"}, {"exception"}}

\* Articles that between them have a match for every validator.
OrderArticles ==
    { << EurAtReference, HeadlineInflation, SmithSaidRate >>,
      << UnemploymentRate, TenYearYield, FomcMeeting >>,
      << EffectiveRate, CutProbability, DxyLevel >>,
      << BocExpected, ButtonSaidShort >> }

InitOrder ==
    /\ Construct
    /\ in_flight = << >>
    /\ source \in ConstantSources
    /\ now \in StartTimes /\ \A t \in StartTimes : now <= t
    /\ article \in OrderArticles

NextOrder ==
    \/ ValidatorInAnyOrder
    \/ ExpertCitationsInAnyOrder
    \/ ForexRatesMatchInAnyOrder
    \/ InflationDataMatchInAnyOrder
    \/ UnemploymentDataMatchInAnyOrder
    \/ TreasuryYieldsMatchInAnyOrder
    \/ FedMeetingsMatchInAnyOrder
    \/ FedRatesMatchInAnyOrder
    \/ RateProbabilitiesMatchInAnyOrder
    \/ DxyIndexMatchInAnyOrder
    \/ OtherCentralBanksMatchInAnyOrder
    \/ ExpertCitationsMatchInAnyOrder
    \/ ReturnInAnyOrder

SpecOrder == InitOrder /\ [][NextOrder]_vars

(***************************************************************************)
(* Two resolvers called by one caller or by several at once.  Nothing in   *)
(* the class holds a lock, so a call is two steps: the cache test, and,    *)
(* if the test failed, the fetch with the two assignments that store what  *)
(* it brought; other callers may take steps in between.  A caller is in    *)
(* one call at a time.                                                     *)
(***************************************************************************)
RaceKeys == {"forex", "fed_rates"}

\* The fetch a caller has under way: the key, the stamp the key had when the
\* cache test failed, and the time of the test.
Fetching(key) == << [key |-> key, observed |-> StampBefore(Store, key), since |-> now] >>

\* The cache test succeeds: the call returns self.cached_data[key].
ResolveFromCache ==
    \E c \in DOMAIN in_flight, key \in RaceKeys :
        /\ pc = "idle"
        /\ ops < MaxOps
        /\ in_flight[c] = << >>
        /\ CacheValid(Store, key)
        /\ ops' = ops + 1
        /\ served' = << Hit(Store, key).event >>
        /\ UNCHANGED << now, cached_data, cache_timestamp, article, pc, work,
                        processed_values, snapshot, results, called, all_hits, history,
                        passes, ticks, source, running, in_flight >>

\* The cache test fails: the call goes on to fetch.
ResolveFindsStale ==
    \E c \in DOMAIN in_flight, key \in RaceKeys :
        /\ pc = "idle"
        /\ ops < MaxOps
        /\ in_flight[c] = << >>
        /\ ~CacheValid(Store, key)
        /\ ops' = ops + 1
        /\ in_flight' = [in_flight EXCEPT ![c] = Fetching(key)]
        /\ served' = << >>
        /\ UNCHANGED << now, cached_data, cache_timestamp, article, pc, work,
                        processed_values, snapshot, results, called, all_hits, history,
                        passes, ticks, source, running >>

\* What the call does after a failed cache test, whatever the cache holds by
\* then.
Fetched(st, key, outcome) ==
    IF key = "forex"
    THEN IF outcome \in {"ok", "ok_no_rates"}
         THEN Refreshed(st, "forex", CrossRates(ResponseRates(outcome)))
         ELSE Defaulted(st, "forex", default_rates)
    ELSE Refreshed(st, "fed_rates", reference_data.fed_rates)

\* The fetch of a caller returns and the call stores what it brought.
FetchReturns ==
    \E c \in DOMAIN in_flight :
        /\ pc = "idle"
        /\ in_flight[c] # << >>
        /\ \E outcome \in source :
             LET r == Fetched(Store, in_flight[c][1].key, outcome)
             IN /\ cached_data' = r.store.data
                /\ cache_timestamp' = r.store.stamp
                /\ served' = << r.event >>
        /\ in_flight' = [in_flight EXCEPT ![c] = << >>]
        /\ UNCHANGED << now, article, pc, work, processed_values, snapshot, results,
                        called, all_hits, history, passes, ticks, ops, source, running >>

\* A validator just constructed, with one caller or with several.
InitRace ==
    /\ Construct
    /\ source = FetchOutcomes
    /\ now \in StartTimes
    /\ article = << >>
    /\ \E n \in 1..MaxCallers : in_flight = [c \in 1..n |-> << >>]

NextRace ==
    \/ ResolveFromCache
    \/ ResolveFindsStale
    \/ FetchReturns
    \/ Tick

SpecRace == InitRace /\ [][NextRace]_vars

(***************************************************************************)
(* Properties.                                                             *)
(***************************************************************************)
\* The sum of a counter over the ten categories of a report.
SumFound(r) == SumSeq([i \in 1..Len(categories) |-> r[categories[i]].metrics_found])
SumAccurate(r) == SumSeq([i \in 1..Len(categories) |-> r[categories[i]].metrics_accurate])

\* C1: in every category report, while a validator is accumulating and in
\* every report returned, metrics_accurate <= metrics_found.
C1_AccurateAtMostFound ==
    /\ \A c \in DOMAIN results :
          results[c].metrics_accurate <= results[c].metrics_found
    /\ \A i \in 1..Len(history) : \A c \in CategorySet :
          history[i].report.categories[c].metrics_accurate
              <= history[i].report.categories[c].metrics_found

\* A validator is in its loop having found three claims, two of them accurate.
C1_Witness ==
    /\ pc = "rate_probabilities"
    /\ results["rate_probabilities"].metrics_found = 3
    /\ results["rate_probabilities"].metrics_accurate = 2

\* C2: overall_accuracy is 100 * (sum of metrics_accurate) / (sum of
\* metrics_found) over the ten categories rounded to one decimal place (it is
\* kept in tenths: within half a tenth of the quotient), 0 when nothing was
\* found, and always within [0, 100].
C2_OverallAccuracy ==
    \A i \in 1..Len(history) :
        LET r == history[i].report
            found == SumFound(r.categories)
            accurate == SumAccurate(r.categories)
        IN /\ found = 0 => r.overall_accuracy = 0
           /\ found > 0 => 2 * Abs(r.overall_accuracy * found - 1000 * accurate) <= found
           /\ 0 <= r.overall_accuracy
           /\ r.overall_accuracy <= 1000

\* A report of three claims, two accurate: 66.7.
C2_Witness ==
    /\ pc = "returned"
    /\ SumFound(results) = 3
    /\ SumAccurate(results) = 2
    /\ history[Len(history)].report.overall_accuracy = 667

\* C3: validate_article_data never raises, whatever the text.
C3_NeverRaises == pc # "raised"

C5_FailedFetchServesLastGood ==
    \A i \in 1..Len(served) :
        served[i].fetch = "failed" =>
            IF served[i].previous # << >>
            THEN served[i].payload = cached_data[served[i].key]
            ELSE served[i].payload = default_rates

\* C5, amended: a resolve whose fetch fails does not raise and hands back the
\* default payload, whether a snapshot is cached or not; the cache is left as
\* it was.
C5_FailedFetchServesDefault ==
    \A i \in 1..Len(served) :
        served[i].fetch = "failed" =>
            /\ served[i].origin = "default"
            /\ served[i].payload = default_rates
            /\ IF served[i].previous = << >>
               THEN served[i].key \notin DOMAIN cache_timestamp
               ELSE cache_timestamp[served[i].key] = served[i].previous[1]

\* The fetch fails while an expired forex snapshot, other than the default
\* payload, is cached.
C5_Witness ==
    /\ served # << >>
    /\ served[1].fetch = "failed"
    /\ served[1].previous # << >>
    /\ served[1].payload = default_rates
    /\ cached_data["forex"] # default_rates

\* The categories whose details carry the claimed figure as numbers.
NumericCategories ==
    {"forex_rates", "fed_rates", "rate_probabilities", "dxy_index"}

\* C6: within one validation, a category counts a claim at most once per
\* normalised value, also when several of its rules read the same occurrence.
C6_CountedOncePerValue ==
    \A c \in NumericCategories \cap DOMAIN results :
        \A i, j \in 1..Len(results[c].details) :
            i # j => results[c].details[i].article_value # results[c].details[j].article_value

\* The reports of two calls agree in everything but the time stamp.
SameButStamp(a, b) ==
    /\ a.categories = b.categories
    /\ a.overall_accuracy = b.overall_accuracy

\* Two calls on the same text for which every snapshot was unexpired (every
\* resolve of both was served from the cache) and unchanged (the cache held
\* the same payloads with the same stamps).
SameSnapshots(i, j) ==
    /\ history[i].text = history[j].text
    /\ history[i].all_hits
    /\ history[j].all_hits
    /\ history[i].data = history[j].data
    /\ history[i].stamps = history[j].stamps

\* C7, as stated: two calls on identical text, every snapshot unexpired and
\* unchanged between them, return reports equal in every field.
C7_ByteIdentical ==
    \A i, j \in 1..Len(history) :
        SameSnapshots(i, j) => history[i].report = history[j].report

\* C7, amended: two such calls made in the same calendar year return reports
\* equal in every field but validation_timestamp.
C7_SameButStamp ==
    \A i, j \in 1..Len(history) :
        SameSnapshots(i, j) /\ history[i].year = history[j].year
            => SameButStamp(history[i].report, history[j].report)

\* Two such calls an hour or more apart, which found something.
C7_Witness ==
    \E i, j \in 1..Len(history) :
        /\ SameSnapshots(i, j)
        /\ history[i].year = history[j].year
        /\ history[i].report.validation_timestamp < history[j].report.validation_timestamp
        /\ SumFound(history[i].report.categories) > 0
        /\ SameButStamp(history[i].report, history[j].report)

\* C8: the self-test text against EUR/USD = 1.1715, GBP/USD = 1.353 and
\* 10Y = 4.08 gives forex_rates two claims found, none accurate, and
\* treasury_yields one claim found, not accurate.
C8_SelfTestCounts ==
    /\ ( /\ article = SelfTestArticle
         /\ pc = "forex_rates"
         /\ work = << >>
         /\ snapshot = default_rates )
       => /\ results["forex_rates"].metrics_found = 2
          /\ results["forex_rates"].metrics_accurate = 0
    /\ ( /\ article = SelfTestArticle
         /\ pc = "treasury_yields"
         /\ work = << >>
         /\ snapshot = treasury_yields )
       => /\ results["treasury_yields"].metrics_found = 1
          /\ results["treasury_yields"].metrics_accurate = 0

\* C9: a call that has ended has run the ten validators in the fixed order
\* and holds a report of each of the ten categories.
C9_AllTenInOrder ==
    pc \in {"returned", "raised"} =>
        /\ called = categories
        /\ DOMAIN results = CategorySet

\* C10: a forex claim that passes plausibility is accurate iff
\* |claim - reference| / reference < 1%; against EUR/USD = 1.1715 the claim
\* 1.1715 is accurate and the claim 1.2000 is not.
C10_ForexTolerance ==
    "forex_rates" \in DOMAIN results =>
        \A i \in 1..Len(results["forex_rates"].details) :
            LET d == results["forex_rates"].details[i]
            IN /\ d.is_accurate <=>
                    Abs(d.article_value - d.current_value) * 100 < d.current_value
               /\ d.pair = "EUR/USD" /\ d.current_value = Dec(1, 1715) =>
                    /\ d.article_value = Dec(1, 1715) => d.is_accurate
                    /\ d.article_value = Dec(1, 2000) => ~d.is_accurate

\* "EUR/USD at 1.1715" and "EUR/USD at 1.2000" validated against 1.1715.
C10_Witness ==
    /\ pc = "returned"
    /\ article = << EurAtReference, EurOff >>
    /\ Len(results["forex_rates"].details) = 2
    /\ results["forex_rates"].details[1].current_value = Dec(1, 1715)
    /\ results["forex_rates"].details[1].is_accurate
    /\ ~results["forex_rates"].details[2].is_accurate

\* C11: a claimed range of the policy rate is accurate iff each bound is
\* within 0.01 of the bound of the reference range, a bound exactly 0.01 away
\* included; against 4.25-4.50 the claim 4.25-4.50 is accurate and the claim
\* 4.00-4.25 is not.
C11_RangeTolerance ==
    "fed_rates" \in DOMAIN results =>
        \A i \in 1..Len(results["fed_rates"].details) :
            LET d == results["fed_rates"].details[i]
            IN d.type = "fed_rate_range" =>
                  /\ d.is_accurate <=>
                        /\ Abs(d.article_value[1] - d.current_value[1]) * 100 <= Unit
                        /\ Abs(d.article_value[2] - d.current_value[2]) * 100 <= Unit
                  /\ d.current_value = << Dec(4, 2500), Dec(4, 5000) >> =>
                        /\ d.article_value = << Dec(4, 2500), Dec(4, 5000) >> => d.is_accurate
                        /\ d.article_value = << Dec(4, 0), Dec(4, 2500) >> => ~d.is_accurate

\* "Fed rate range of 4.26-4.51%", both bounds 0.01 above the reference, has
\* been validated against 4.25-4.50 and found accurate.
C11_Witness ==
    /\ pc = "returned"
    /\ article = << RateRangeAbove >>
    /\ Len(results["fed_rates"].details) = 1
    /\ results["fed_rates"].details[1].article_value = << Dec(4, 2600), Dec(4, 5100) >>
    /\ results["fed_rates"].details[1].current_value = << Dec(4, 2500), Dec(4, 5000) >>
    /\ results["fed_rates"].details[1].is_accurate

\* The figures of the inflation claims of a text that float() accepts and
\* that are plausible.
InflationFigures(text) ==
    LET ms == InflationMatches(text)
    IN {Float(CleanInflation(ms[i].m)) :
           i \in {j \in 1..Len(ms) : /\ CanFloat(CleanInflation(ms[j].m))
                                     /\ InflationRealistic(Float(CleanInflation(ms[j].m)))}}

\* C12: when the inflation validator has gone through its matches, every
\* claim of headline or core inflation that was extracted, parses, is
\* plausible and is no duplicate has been counted in metrics_found and
\* compared with CPI_headline or CPI_core of the snapshot, and is accurate iff
\* it is within 0.1 of it.
C12_InflationCounted ==
    (pc = "inflation_data" /\ work = << >>) =>
        /\ results["inflation_data"].metrics_found = Cardinality(InflationFigures(article))
        /\ \A i \in 1..Len(results["inflation_data"].details) :
              LET d == results["inflation_data"].details[i]
              IN /\ d.current_value = snapshot[d.metric]
                 /\ d.is_accurate <=> Abs(d.article_value - d.current_value) * 10 <= Unit

\* The reference probability of the outcome a phrase claims: for a cut of no
\* stated size, the sum of the buckets of the cuts.
ClaimedProbability(sub, current_probabilities) ==
    CASE sub = "fed_hike" -> current_probabilities.fed.hike
      [] sub = "fed_hold" -> current_probabilities.fed.hold
      [] sub = "fed_cut" ->
            current_probabilities.fed.cut_25bp + current_probabilities.fed.cut_50bp
      [] sub = "fed_cut_25bp" -> current_probabilities.fed.cut_25bp
      [] sub = "fed_cut_50bp" -> current_probabilities.fed.cut_50bp
      [] sub = "boc_hold" -> current_probabilities.boc.hold
      [] sub = "boc_cut" -> current_probabilities.boc.cut_25bp

\* The phrases of a text that claim a probability.
ProbabilityClaims(text) ==
    {i \in 1..Len(text) : text[i].kind = "rate_probability" /\ IsNumber(text[i].num)}

\* C13: a claimed probability is accurate iff it is within 10 points of the
\* reference probability of the outcome claimed, and a cut claimed without a
\* size is compared with the sum of the buckets of the cuts and with nothing
\* else: when the validator has gone through its matches there is one
\* comparison for each claim, made with the reference of its outcome.
C13_ProbabilityTolerance ==
    "rate_probabilities" \in DOMAIN results =>
        LET details == results["rate_probabilities"].details
        IN /\ \A i \in 1..Len(details) :
                 /\ details[i].is_accurate <=>
                        Abs(details[i].article_value - details[i].current_value) <= 10 * Unit
                 /\ \E k \in ProbabilityClaims(article) :
                        /\ details[i].article_value = Float(CleanMatch(article[k].num))
                        /\ details[i].current_value =
                               ClaimedProbability(article[k].sub, reference_data.rate_probabilities)
           /\ (pc = "rate_probabilities" /\ work = << >>) =>
                 Len(details) = Cardinality(ProbabilityClaims(article))

\* C14: a claimed level of the dollar index is accurate iff it is less than
\* 1% away from the reference level, a level exactly 1% away being inaccurate;
\* a claimed range is accurate iff the reference level lies in it, the bounds
\* included.
C14_DxyTolerance ==
    "dxy_index" \in DOMAIN results =>
        \A i \in 1..Len(results["dxy_index"].details) :
            LET d == results["dxy_index"].details[i]
            IN IF d.type = "dxy_index"
               THEN d.is_accurate <=>
                       Abs(d.article_value[1] - d.current_value) * 100 < d.current_value
               ELSE d.is_accurate <=>
                       /\ d.article_value[1] <= d.current_value
                       /\ d.current_value <= d.article_value[2]

\* "DXY at 98.5861", exactly 1% above the reference 97.61, has been validated
\* and found inaccurate.
C14_Witness ==
    /\ pc = "returned"
    /\ article = << DxyOnePercentAbove >>
    /\ Len(results["dxy_index"].details) = 1
    /\ LET d == results["dxy_index"].details[1]
       IN /\ d.type = "dxy_index"
          /\ Abs(d.article_value[1] - d.current_value) * 100 = d.current_value
          /\ ~d.is_accurate

\* The decisions a bank is expected to take as the reference words them.
ExpectedOf(bank) ==
    CASE bank = "boc" -> {"cut", "lower", "reduce"}
      [] bank \in {"ecb", "boe"} -> {"hold", "maintain", "keep unchanged"}

\* C15: the decision a text expects of another central bank is normalised,
\* cut, lower and reduce to "cut", hold, maintain and keep unchanged to
\* "hold", hike and raise to "hike", and is accurate iff the normalised word
\* is contained in the expected_decision of the bank's reference; "BoC is
\* expected to lower its interest rate" becomes "cut" and is accurate against
\* "cut_25bp".
C15_ExpectedDecision ==
    "other_central_banks" \in DOMAIN results =>
        \A i \in 1..Len(results["other_central_banks"].details) :
            LET d == results["other_central_banks"].details[i]
            IN (Len(d.type) = 2 /\ d.type[2] = "expected_decision") =>
                 \E k \in 1..Len(article) :
                    LET word == article[k].quote[1]
                    IN /\ article[k].kind = "bank_expected"
                       /\ article[k].sub = d.type[1]
                       /\ d.article_value =
                             CASE word \in {"cut", "lower", "reduce"} -> << "c", "u", "t" >>
                               [] word \in {"hold", "maintain", "keep unchanged"} ->
                                     << "h", "o", "l", "d" >>
                               [] word \in {"hike", "raise"} -> << "h", "i", "k", "e" >>
                       /\ d.is_accurate <=> word \in ExpectedOf(d.type[1])
                       /\ d.is_accurate <=>
                             Contains(reference_data.other_central_banks[d.type[1]].expected_decision,
                                      d.article_value)

\* "BoC is expected to lower its interest rate" has been validated: the
\* decision recorded is "cut" and it is accurate against "cut_25bp".
C15_Witness ==
    /\ pc = "returned"
    /\ article = << BocExpected >>
    /\ Len(results["other_central_banks"].details) = 1
    /\ LET d == results["other_central_banks"].details[1]
       IN /\ d.type = << "boc", "expected_decision" >>
          /\ d.article_value = << "c", "u", "t" >>
          /\ d.current_value = << "c", "u", "t", "_", "2", "5", "b", "p" >>
          /\ d.is_accurate

\* The phrases of a text that claim the days of a meeting of the FOMC, and
\* those that claim the day of a meeting of another bank with reference data.
FomcClaims(text) ==
    {k \in 1..Len(text) :
        /\ text[k].kind \in {"fomc_meeting", "fomc_meeting_after", "fomc_meeting_month_first"}
        /\ month_to_number(text[k].sub) # NoMonth}

BankMeetingClaims(text) ==
    {k \in 1..Len(text) :
        /\ text[k].kind \in {"bank_meeting", "bank_meeting_month_first"}
        /\ text[k].sub \in DOMAIN reference_data.other_central_banks
        /\ month_to_number(text[k].quote[1]) # NoMonth}

\* C16: a claimed meeting date, of the FOMC or of another central bank, is
\* resolved with the month and the days of the text and the calendar year
\* the clock shows when the text is validated, and is accurate iff the date
\* is the one of the reference: for the FOMC both the first and the last day
\* of a meeting, for another bank the day of its next meeting.  Every such
\* claim of a text whose date exists is judged once.
C16_MeetingDates ==
    \A i \in 1..Len(history) :
        LET text == history[i].text
            year == 2025 + (history[i].report.validation_timestamp \div (365 * 24))
            fomc == history[i].report.categories["fed_meetings"].details
            others == history[i].report.categories["other_central_banks"].details
            meetings == {j \in 1..Len(others) :
                            Len(others[j].type) = 2 /\ others[j].type[2] = "meeting_date"}
        IN /\ Len(fomc) = Cardinality(FomcClaims(text))
           /\ \A j \in 1..Len(fomc) :
                 \E k \in FomcClaims(text) :
                    LET first == IntOf(text[k].num)
                        last == IF text[k].num2 = None THEN first ELSE IntOf(text[k].num2)
                        month == month_to_number(text[k].sub)
                    IN /\ fomc[j].article_value[1] = first
                       /\ fomc[j].article_value[2] = last
                       /\ fomc[j].is_accurate <=>
                             \E m \in 1..Len(reference_data.fed_meetings) :
                                /\ << year, month, first >> = reference_data.fed_meetings[m].start_date
                                /\ << year, month, last >> = reference_data.fed_meetings[m].end_date
           /\ Cardinality(meetings) = Cardinality(BankMeetingClaims(text))
           /\ \A j \in meetings :
                 \E k \in BankMeetingClaims(text) :
                    /\ others[j].type[1] = text[k].sub
                    /\ others[j].article_value = << IntOf(text[k].num), text[k].quote[1] >>
                    /\ others[j].is_accurate <=>
                          << year, month_to_number(text[k].quote[1]), IntOf(text[k].num) >>
                              = reference_data.other_central_banks[text[k].sub].next_meeting

\* The text with "FOMC meeting on September 16-17" and "BoC meeting on 17
\* September" has been validated in 2025, where both are accurate, and
\* again in 2026, where neither is.
C16_Witness ==
    /\ Len(history) = 2
    /\ history[1].year = 2025
    /\ history[2].year = 2026
    /\ FomcMonthFirst \in {history[2].text[k] : k \in DOMAIN history[2].text}
    /\ history[1].report.categories["fed_meetings"].metrics_found = 3
    /\ history[1].report.categories["fed_meetings"].metrics_accurate = 2
    /\ history[2].report.categories["fed_meetings"].metrics_accurate = 0
    /\ history[1].report.categories["other_central_banks"].metrics_accurate = 2
    /\ history[2].report.categories["other_central_banks"].metrics_found = 3
    /\ history[2].report.categories["other_central_banks"].metrics_accurate = 0

\* The recent quotes of the registered expert of a name.
QuotesOf(name) ==
    LET e == CHOOSE x \in 1..Len(known_experts) : known_experts[x].name = name
    IN {known_experts[e].recent_quotes[q] : q \in 1..Len(known_experts[e].recent_quotes)}

\* The details of the quotations of registered experts.
CitationDetails ==
    IF "expert_citations" \in DOMAIN results
    THEN {results["expert_citations"].details[i] :
             i \in {j \in 1..Len(results["expert_citations"].details) :
                        results["expert_citations"].details[j].type = "expert_citation"}}
    ELSE {}

\* C17, as stated: a quotation of a registered expert that shares more than
\* half of its words with one of the expert's reference quotes is accurate,
\* whether it holds a figure or not.
C17_HalfOfItsWords ==
    \A d \in CitationDetails :
        (\E quote \in QuotesOf(d.expert) :
            LET own == {d.citation[w] : w \in DOMAIN d.citation}
                known == {quote[w] : w \in DOMAIN quote}
            IN 2 * Cardinality(own \cap known) > Cardinality(own))
        => d.is_accurate

\* C17, amended: a quotation of a registered expert is accurate, whether it
\* holds a figure or not, if the words it shares with one of the expert's
\* reference quotes are more than half of the words of the two taken
\* together (Jaccard similarity of the two sets of words above 0.5).
C17_JaccardAboveHalf ==
    \A d \in CitationDetails :
        (\E quote \in QuotesOf(d.expert) :
            LET own == {d.citation[w] : w \in DOMAIN d.citation}
                known == {quote[w] : w \in DOMAIN quote}
            IN 2 * Cardinality(own \cap known) > Cardinality(own \cup known))
        => d.is_accurate

\* Adam Button's "Markets are pricing in a 80% probability of a 25bp cut in
\* September", which shares 10 of the 17 words of it and of a reference quote
\* taken together and holds no current figure, has been found accurate.
C17_Witness ==
    /\ pc = "returned"
    /\ article = << ButtonSaid >>
    /\ \E d \in CitationDetails :
          /\ d.expert = "adam button"
          /\ d.citation = ButtonSaid.quote
          /\ d.similarity_score = 59
          /\ ~ContainsCurrentData(d.citation, cached_data["forex"], cached_data["inflation"])
          /\ d.is_accurate

\* The registered experts a text names, and those it quotes.
NamedIn(text) ==
    {known_experts[e].name : e \in {x \in 1..Len(known_experts) :
        \E k \in 1..Len(text) : /\ text[k].kind \in {"said", "named"}
                                /\ Lower(text[k].sub) = known_experts[x].name}}

QuotedIn(text) ==
    {known_experts[e].name : e \in {x \in 1..Len(known_experts) :
        \E k \in 1..Len(text) : /\ text[k].kind = "said"
                                /\ text[k].quote # << >>
                                /\ Lower(text[k].sub) = known_experts[x].name}}

\* C18: in the report of one validation, a registered expert the text names
\* without quoting has exactly one entry of type expert_mention, however
\* often the name occurs, and an expert it quotes or does not name has
\* none; the entry of a mention is always accurate and counts one found and
\* one accurate.
C18_OneMentionPerExpert ==
    \A i \in 1..Len(history) :
        LET r == history[i].report.categories["expert_citations"]
            text == history[i].text
            mentions == {j \in 1..Len(r.details) : r.details[j].type = "expert_mention"}
            accurate == {j \in 1..Len(r.details) : r.details[j].is_accurate}
        IN /\ \A e \in 1..Len(known_experts) :
                 Cardinality({j \in mentions : r.details[j].expert = known_experts[e].name})
                     = IF known_experts[e].name \in NamedIn(text) \ QuotedIn(text) THEN 1 ELSE 0
           /\ mentions \subseteq accurate
           /\ r.metrics_found = Len(r.details)
           /\ r.metrics_accurate = Cardinality(accurate)

\* A text that names Adam Button twice and Kathy Lien once, quoting neither,
\* has been validated: one accurate mention of each.
C18_Witness ==
    /\ pc = "returned"
    /\ article = << ButtonNamed, LienNamed, ButtonNamed >>
    /\ results["expert_citations"].metrics_found = 2
    /\ results["expert_citations"].metrics_accurate = 2
    /\ results["expert_citations"].details[1].type = "expert_mention"
    /\ results["expert_citations"].details[1].expert = "adam button"
    /\ results["expert_citations"].details[2].type = "expert_mention"
    /\ results["expert_citations"].details[2].expert = "kathy lien"

\* The details of the quotations of unregistered experts.
UnknownCitationDetails ==
    IF "expert_citations" \in DOMAIN results
    THEN {results["expert_citations"].details[i] :
             i \in {j \in 1..Len(results["expert_citations"].details) :
                        results["expert_citations"].details[j].type = "unknown_expert_citation"}}
    ELSE {}

\* C19: a quotation of an unregistered expert is accurate iff its text holds
\* a figure of the forex or of the inflation snapshot resolved for it, and
\* is rejected otherwise; and what an institution of the stoplist (Fed, ECB,
\* Bank of England, ...) said is never recorded as the quotation of an
\* expert: every quotation recorded was said by someone not on the list.
C19_UnregisteredCitations ==
    /\ \A d \in UnknownCitationDetails :
          /\ d.is_accurate <=> d.contains_current_data
          /\ \E k \in 1..Len(article) :
                /\ article[k].kind = "said"
                /\ article[k].quote = d.citation
                /\ Lower(article[k].sub) \notin excluded_terms
    /\ ( /\ pc = "expert_citations"
         /\ Len(served) = 2
         /\ results["expert_citations"].details # << >> ) =>
            LET d == results["expert_citations"].details[Len(results["expert_citations"].details)]
            IN d.type = "unknown_expert_citation" =>
                  (d.is_accurate <=>
                      ContainsCurrentData(d.citation, served[1].payload, served[2].payload))

\* The capture a validator is about to convert is no number.
CaptureFails ==
    /\ work # << >>
    /\ \/ /\ pc = "inflation_data"
          /\ ~CanFloat(CleanInflation(Head(work).m))
       \/ /\ pc \in {"unemployment_data", "treasury_yields"}
          /\ ~CanFloat(CleanMatch(Head(work).m))

\* C20: a capture that does not parse is dropped silently: the step that
\* meets it counts nothing, writes no detail and raises nothing, and the
\* validator goes on with its remaining matches, so that the categories
\* after it are reached.
C20_ParseFailureDropped ==
    [][CaptureFails => /\ results' = results
                       /\ pc' = pc
                       /\ work' = Tail(work)]_vars

\* The forex claims of a text: the pair and the value of every quote its
\* rules read.
ForexClaims(text) ==
    LET ms == ForexMatches(text)
    IN {<< ms[i].pair, Float(CleanMatch(ms[i].m)) >> :
           i \in {j \in 1..Len(ms) : CanFloat(CleanMatch(ms[j].m))}}

\* The plausible range of a pair, bounds included.
Plausible(pair, v) ==
    IF pair = "USD/JPY"
    THEN 100 * Unit <= v /\ v <= 160 * Unit
    ELSE Unit <= v /\ 2 * v <= 3 * Unit

\* C21: a forex claim is counted only if its value lies in the plausible
\* range of its pair, [1.0, 1.5] for EUR/USD and GBP/USD and [100, 160] for
\* USD/JPY, the bounds included: every detail of the forex report states a
\* plausible value, a claim outside the range leaves no detail and is not
\* counted, and a claim on a bound is in the report returned.
C21_PlausibleRange ==
    "forex_rates" \in DOMAIN results =>
        LET r == results["forex_rates"]
            recorded == {<< r.details[i].pair, r.details[i].article_value >> :
                            i \in 1..Len(r.details)}
        IN /\ \A c \in recorded : Plausible(c[1], c[2]) /\ c \in ForexClaims(article)
           /\ r.metrics_found = Len(r.details)
           /\ r.metrics_found = Cardinality(recorded)
           /\ pc = "returned" =>
                 recorded = {c \in ForexClaims(article) : Plausible(c[1], c[2])}

\* "EUR/USD at 1.5001", "EUR/USD at 1.5" and "USD/JPY at 160.01" validated:
\* only the quote on the bound is counted.
C21_Witness ==
    /\ pc = "returned"
    /\ article = << EurAboveRange, EurAtUpperBound, YenAboveRange >>
    /\ results["forex_rates"].metrics_found = 1
    /\ results["forex_rates"].details[1].pair = "EUR/USD"
    /\ results["forex_rates"].details[1].article_value = Dec(1, 5000)

\* The claim a validator is about to judge is of a subtype the snapshot it
\* resolved has no field for.
MissingField ==
    /\ work # << >>
    /\ \/ pc = "forex_rates" /\ get_rate_for_pair(Head(work).pair, snapshot) = NoRate
       \/ pc = "inflation_data" /\ Lower(Head(work).metric) \notin DOMAIN snapshot
       \/ pc = "unemployment_data" /\ Head(work).metric \notin DOMAIN snapshot
       \/ pc = "treasury_yields" /\ Head(work).tenor \notin DOMAIN snapshot

\* The banks the report of the other central banks has a detail of.
BanksReported ==
    IF "other_central_banks" \in DOMAIN results
    THEN LET ds == results["other_central_banks"].details
         IN {ds[i].type[1] : i \in {j \in 1..Len(ds) : Len(ds[j].type) = 2}}
    ELSE {}

\* C22: a claim whose subtype a rule recognises and the resolved snapshot
\* has no field for is discarded: the step that meets it leaves metrics_found
\* and details as they are and raises nothing, and no detail is ever written
\* for a central bank the snapshot does not hold.
C22_MissingFieldDiscarded ==
    /\ [](BanksReported \subseteq DOMAIN reference_data.other_central_banks)
    /\ [][MissingField => /\ results' = results
                          /\ pc' = pc
                          /\ work' = Tail(work)]_vars

\* "headline inflation at 2.9%", "BoJ is expected to hold" and "unemployment
\* rate currently stands at 4.3%" validated: the snapshots hold neither
\* cpi_headline nor the Bank of Japan, and only the third claim is counted.
C22_Witness ==
    /\ pc = "returned"
    /\ article = << HeadlineInflation, BojExpectedHold, UnemploymentRate >>
    /\ results["inflation_data"].metrics_found = 0
    /\ results["inflation_data"].details = << >>
    /\ results["other_central_banks"].metrics_found = 0
    /\ results["unemployment_data"].metrics_found = 1

\* The time-to-live of a key as the specification gives it, in hours.
SpecifiedTtl(key) ==
    CASE key \in {"forex", "dxy"} -> 6
      [] key = "treasury" -> 24
      [] key = "rate_probabilities" -> 12
      [] key \in {"inflation", "unemployment", "fed_calendar", "fed_rates", "central_banks"} -> 168

\* C23: the time-to-live is 6 hours for forex and the dollar index, 1 day
\* for treasury yields, 12 hours for the probabilities and 7 days for the
\* rest: a resolve is answered from the cache iff the key was fetched less
\* than its time-to-live ago, and otherwise goes to the source.
C23_TimeToLive ==
    \A i \in 1..Len(served) :
        LET e == served[i]
            fresh == e.previous # << >> /\ e.at - e.previous[1] < SpecifiedTtl(e.key)
        IN /\ e.origin = "cache" <=> fresh
           /\ fresh => e.fetch = "none" /\ e.fetched_at = e.previous[1]
           /\ ~fresh => e.fetch \in {"ok", "failed"} /\ e.fetched_at = e.at

\* Treasury yields fetched exactly one day ago are resolved: they are fetched
\* again.
C23_Witness ==
    /\ served # << >>
    /\ served[1].key = "treasury"
    /\ served[1].previous # << >>
    /\ served[1].at - served[1].previous[1] = 24
    /\ served[1].origin = "fetch"

\* The details of a report that are accurate.
AccurateDetails(r) == {i \in 1..Len(r.details) : r.details[i].is_accurate}

\* C26: in every category report, at every point of a validation, the
\* number of details is metrics_found and the number of accurate details is
\* metrics_accurate; and a step of a validation leaves the details of a
\* report as they are or appends one detail to them, so that they stand in
\* the order of extraction.
C26_CountersMatchDetails ==
    /\ [](\A cat \in DOMAIN results :
            /\ Len(results[cat].details) = results[cat].metrics_found
            /\ Cardinality(AccurateDetails(results[cat])) = results[cat].metrics_accurate)
    /\ [][\A cat \in DOMAIN results \cap DOMAIN results' :
             \/ passes' # passes
             \/ results'[cat] = results[cat]
             \/ /\ Len(results'[cat].details) = Len(results[cat].details) + 1
                /\ SubSeq(results'[cat].details, 1, Len(results[cat].details))
                      = results[cat].details
                /\ results'[cat].metrics_found = results[cat].metrics_found + 1]_vars

\* A report returned with an accurate and an inaccurate claim in one
\* category: "EUR/USD at 1.1715" and "EUR/USD at 1.2000" against 1.1715.
C26_Witness ==
    /\ pc = "returned"
    /\ results["forex_rates"].metrics_found = 2
    /\ results["forex_rates"].metrics_accurate = 1
    /\ Len(results["forex_rates"].details) = 2
    /\ results["forex_rates"].details[2].is_accurate
    /\ ~results["forex_rates"].details[1].is_accurate

\* What the cache holds under a key: the payload and the stamp, if any.
Entry(data, stamps, key) ==
    << IF key \in DOMAIN data THEN << data[key] >> ELSE << >>,
       IF key \in DOMAIN stamps THEN << stamps[key] >> ELSE << >> >>

\* The forex resolves of the last step.
ForexResolves == {i \in 1..Len(served) : served[i].key = "forex"}

\* C27: a forex fetch that fails hands back the default rates and leaves
\* cached_data and cache_timestamp as they were, so that the defaults are
\* never served from the cache: every forex resolve made while the cache
\* holds no forex snapshot younger than six hours, those of the validator of
\* citations included, goes to the source again.
C27_FailedFetchNotCached ==
    /\ [](\A i \in ForexResolves :
            LET e == served[i]
            IN /\ e.fetch = "failed" =>
                    /\ e.payload = default_rates
                    /\ e.origin = "default"
                    /\ Entry(cached_data, cache_timestamp, "forex")[2] = e.previous
               /\ (e.previous = << >> \/ e.at - e.previous[1] >= 6) => e.fetch # "none"
               /\ e.origin = "cache" => e.payload # default_rates)
    /\ [][(\E i \in 1..Len(served') : served'[i].key = "forex" /\ served'[i].fetch = "failed")
             => Entry(cached_data', cache_timestamp', "forex")
                   = Entry(cached_data, cache_timestamp, "forex")]_vars

\* The validator of citations resolves the forex rates after the fetch of
\* the forex validator has failed: it fetches again, fails again, and the
\* cache still holds no forex snapshot.
C27_Witness ==
    /\ pc = "expert_citations"
    /\ Len(served) = 2
    /\ served[1].key = "forex"
    /\ served[1].fetch = "failed"
    /\ served[1].previous = << >>
    /\ "forex" \notin DOMAIN cached_data
    /\ "forex" \notin DOMAIN cache_timestamp

\* C28: a resolve answered from the cache changes neither the payload nor
\* its stamp, and payload and stamp are written together: at all times a key
\* has a payload iff it has a stamp, an entry changes only in a step whose
\* fetch succeeded, which stores what it fetched with the time of the call,
\* so that the stamp of a key is the time of its last fetch that succeeded.
C28_StampIsLastFetch ==
    /\ [](/\ DOMAIN cached_data = DOMAIN cache_timestamp
          /\ \A key \in DOMAIN cache_timestamp : cache_timestamp[key] <= now)
    /\ [][\A key \in CacheKeys :
             LET fetched == {i \in 1..Len(served') :
                               served'[i].key = key /\ served'[i].fetch = "ok"}
             IN IF fetched = {}
                THEN Entry(cached_data', cache_timestamp', key)
                        = Entry(cached_data, cache_timestamp, key)
                ELSE \E i \in fetched :
                        Entry(cached_data', cache_timestamp', key)
                           = << << served'[i].payload >>, << now >> >>]_vars

\* A rate-probability snapshot is served from the cache eleven hours after
\* it was fetched, and its stamp is still the time of the fetch.
C28_Witness ==
    /\ served # << >>
    /\ served[1].key = "rate_probabilities"
    /\ served[1].origin = "cache"
    /\ served[1].at - served[1].fetched_at = 11
    /\ cache_timestamp["rate_probabilities"] = served[1].fetched_at

\* The details of the report of citations that are of a given type and name
\* a given expert, whatever the case of the name.
DetailsOf(type, name) ==
    IF "expert_citations" \in DOMAIN results
    THEN {i \in 1..Len(results["expert_citations"].details) :
             /\ results["expert_citations"].details[i].type = type
             /\ Lower(results["expert_citations"].details[i].expert) = Lower(name)}
    ELSE {}

\* The names of the registry.
RegisteredNames == {known_experts[e].name : e \in 1..Len(known_experts)}

\* C29: within one pass a registered expert never has both a citation and
\* a mention in the report: there is at most one mention of an expert, and
\* none if a quotation of the expert was counted.
C29_CitationOrMention ==
    \A name \in RegisteredNames :
        /\ Cardinality(DetailsOf("expert_mention", name)) <= 1
        /\ DetailsOf("expert_citation", name) # {} => DetailsOf("expert_mention", name) = {}

\* Adam Button is named, quoted and named again: the report returned holds
\* his quotation and no mention of him.
C29_Witness ==
    /\ pc = "returned"
    /\ article = << ButtonNamed, ButtonSaid, ButtonNamed >>
    /\ Cardinality(DetailsOf("expert_citation", "adam button")) = 1
    /\ DetailsOf("expert_mention", "adam button") = {}
    /\ results["expert_citations"].metrics_found = 1

\* The names the generic rule has recorded a quotation of.
UnknownNames ==
    {Lower(d.expert) : d \in UnknownCitationDetails}

\* C30: within one pass the generic rule records at most one quotation for
\* a name, whatever its case, none for a name of the registry and none whose
\* quoted text is empty: the report returned holds one quotation for every
\* name the rule reads that is neither registered nor on the stoplist.
C30_OnePerUnknownName ==
    /\ \A d \in UnknownCitationDetails :
          /\ Cardinality(DetailsOf("unknown_expert_citation", d.expert)) = 1
          /\ Lower(d.expert) \notin RegisteredNames
          /\ d.citation # << >>
    /\ pc = "returned" =>
          UnknownNames =
             {n \in {Lower(GenericNames(article[k].sub)[1].name) :
                        k \in {j \in 1..Len(article) :
                                  /\ article[j].kind = "said"
                                  /\ article[j].quote # << >>
                                  /\ GenericNames(article[j].sub) # << >>}} :
                 n \notin RegisteredNames \cup excluded_terms}

\* John Smith is quoted twice: the report returned holds his first
\* quotation only.
C30_Witness ==
    /\ pc = "returned"
    /\ article = << SmithSaid, SmithSaidFigure >>
    /\ Cardinality(UnknownCitationDetails) = 1
    /\ results["expert_citations"].metrics_found = 1
    /\ results["expert_citations"].details[1].citation = SmithSaid.quote


\* The report a validator has when its loop over items ends or raises.
RECURSIVE LoopAlone(_, _, _, _, _)
LoopAlone(cat, res, seen, payload, items) ==
    IF items = << >> THEN res
    ELSE LET out == MatchOf(cat, res, seen, payload, Head(items))
         IN IF out.raised THEN out.res
            ELSE LoopAlone(cat, out.res, out.seen, payload, Tail(items))

RECURSIVE ExpertsAlone(_, _, _, _)
ExpertsAlone(res, st, outcome, items) ==
    IF items = << >> THEN res
    ELSE LET out == ExpertMatch(res, st, outcome, Head(items))
         IN ExpertsAlone(out.res, out.store, outcome, Tail(items))

\* The report of a validator that is the only one called on a validator
\* object just constructed.
NothingCached == [data |-> << >>, stamp |-> << >>]
NothingFound == [metrics_found |-> 0, metrics_accurate |-> 0, details |-> << >>]
ReportAlone(cat, text, outcome) ==
    IF cat = "expert_citations"
    THEN ExpertsAlone(NothingFound, NothingCached, outcome, ExpertMatches(text))
    ELSE LET payload == ResolverOf(cat, NothingCached, outcome).payload
         IN LoopAlone(cat, NothingFound, {}, payload, MatchesOf(cat, text, payload))

\* C24: whatever the order in which the validators are called on one
\* validator object whose source answers every request the same way, a
\* validator that has returned left the report it leaves when it is the only
\* one called; the cache is all the validators share, so what was cached
\* before a call is the whole of what the order can bring to it.
\* A step returns from a validator, or changes the report of one that has
\* returned.
Returns(cat) ==
    /\ running'[cat].work = << >>
    /\ \/ cat \notin DOMAIN running
       \/ running[cat].work # << >>
       \/ results'[cat] # results[cat]

C24_OrderIndependent ==
    [][\A cat \in DOMAIN running' :
           Returns(cat) =>
               \A outcome \in source : results'[cat] = ReportAlone(cat, article, outcome)]_vars

\* C24 witness: all ten validators have returned; the expert validator had
\* fetched the forex rates before the forex validator was called, which was
\* served them from the cache, while the inflation validator, called before
\* the expert validator asked for the inflation data, had fetched its own;
\* the forex and the expert validator left the reports they leave alone.
C24_Witness ==
    /\ pc = "returned"
    /\ running["forex_rates"].origin = "cache"
    /\ running["inflation_data"].origin = "fetch"
    /\ \A cat \in {"forex_rates", "expert_citations"} :
           /\ results[cat].metrics_found > 0
           /\ \A outcome \in source : results[cat] = ReportAlone(cat, article, outcome)


\* The fetches of a key that are under way.
UnderWay(key) == {c \in DOMAIN in_flight : in_flight[c] # << >> /\ in_flight[c][1].key = key}

\* C25: a call fetches only after its cache test found the entry absent or
\* as old as its time to live, and a call that returns from the cache found
\* it younger; nothing else stands between a caller and a fetch.  When a
\* single caller makes the calls one after the other, at most one fetch of
\* a key is under way and the entry is still as the cache test found it
\* when the fetch returns.
C25_UnguardedRefresh ==
    /\ \A c \in DOMAIN in_flight :
           in_flight[c] # << >> =>
               LET f == in_flight[c][1]
               IN \/ f.observed = << >>
                  \/ f.since - f.observed[1] >= cache_validity[f.key]
    /\ \A i \in 1..Len(served) :
           served[i].origin = "cache" =>
               served[i].at - served[i].fetched_at < cache_validity[served[i].key]
    /\ Cardinality(DOMAIN in_flight) = 1 =>
           /\ \A key \in RaceKeys : Cardinality(UnderWay(key)) <= 1
           /\ \A c \in DOMAIN in_flight :
                  in_flight[c] # << >> =>
                      in_flight[c][1].observed = StampBefore(Store, in_flight[c][1].key)

\* C25 witness: two callers have both found the same stale forex entry and
\* both have a fetch of the forex rates under way.
C25_Witness ==
    /\ Cardinality(UnderWay("forex")) = 2
    /\ \A c \in UnderWay("forex") :
           /\ in_flight[c][1].observed # << >>
           /\ in_flight[c][1].observed = StampBefore(Store, "forex")
           /\ in_flight[c][1].since - in_flight[c][1].observed[1] >= cache_validity["forex"]

=============================================================================
